---- MODULE Spec2Model ----
(***************************************************************************)
(* Verification model of the graph service of logseq-spring-thing:         *)
(*   - the graph builder (build_graph_from_metadata, build_graph),         *)
(*   - the single-flight rebuild guard (GRAPH_REBUILD_IN_PROGRESS),        *)
(*   - the CPU layout executor (calculate_layout_cpu),                     *)
(*   - the node position cache (get_node_positions and the tick loop).     *)
(*                                                                         *)
(* Representation of file names.  A file name is a pair <<stem, k>>: the   *)
(* text `stem` followed by k copies of the suffix ".md" (the stem itself   *)
(* does not end in ".md").  <<"a",0>> is "a", <<"a",1>> is "a.md",         *)
(* <<"a",2>> is "a.md.md".                                                 *)
(*                                                                         *)
(* Representation of node ids.  Node ids are decimal strings in the code;  *)
(* the model keeps the number and compares ids as the code compares the    *)
(* strings (lexicographically on the decimal digits).  The empty string    *)
(* is the number 0.                                                        *)
(***************************************************************************)
EXTENDS Integers, Sequences, FiniteSets, TLC

(***************************************************************************)
(* Bounds of the model                                                     *)
(***************************************************************************)
\* largest number of topic_counts entries of a metadata store, all files together
MaxLinks == 2
\* a build starts only while the id counter is at most this value
MaxNextId == 3

VARIABLES
    metadata,     \* the MetadataStore: the argument of build_graph_from_metadata,
                  \* and the metadata of the service's current graph read by build_graph
    nextId,       \* the process-wide counter fresh node ids are taken from
    graph,        \* the GraphData the last completed build returned, or NoGraph
    lastBuild,    \* which entry point built `graph`
    rebuildInProgress,  \* GRAPH_REBUILD_IN_PROGRESS
    pc,           \* where each task's rebuild call stands
    callKind,     \* which entry point each task called
    outcome,      \* what each task's call returned
    graphLock,    \* who holds the write lock of the service's graph_data
    graph_data,   \* the service's graph: the nodes and edges the executor steps
    node_map,     \* the service's map from node id to node data
    params,       \* the SimulationParams of the tick loop
    ticks,        \* how many steps the executor has made
    now,          \* the clock, in ms
    cache,        \* node_positions_cache: <<>> or <<(snapshot, timestamp)>>
    positionsVersion,  \* how many times the tick loop has updated the positions
    rpc,          \* where each reader's get_node_positions call stands
    start_time,   \* the start_time of each reader's call
    snap,         \* the nodes each reader has cloned from graph_data
    served,       \* what each reader's call returned
    tpc,          \* where the tick loop stands
    wakeAt,       \* when the tick loop's sleep ends
    ipc,          \* where each caller's initialize_gpu call stands
    attempt,      \* with_retry: the loop variable of each caller's call
    attempts,     \* with_retry: whether each attempt made so far succeeded
    slept,        \* with_retry: the delays each caller's call has slept, in ms
    initResult,   \* what each caller's initialize_gpu call returned
    svcGpu,       \* whether gpu_compute of each caller's GraphService is Some
    tickGpu,      \* whether the gpu_compute the tick loop captured is Some
    tickExecutor, \* the executor of the tick loop's latest step
    gpu_available,     \* whether state.gpu_compute is Some
    simulation_params, \* GPUCompute.simulation_params: who set them last
    iteration_count,   \* GPUCompute.iteration_count
    gpuPc,             \* where each task that takes the GPU write lock stands
    layoutLeft,        \* the steps each session's layout request has still to make
    layoutIterations,  \* params.iterations of each session's layout request in flight
    layoutSteps,       \* the steps each session's layout request in flight has made
    deviceWritten,     \* the device's node data was written since the last readback of a layout request
    silence,           \* the milliseconds each session has been open since its last inbound Pong
    loopPc,            \* where the tick loop of GraphService::new stands
    loopEnv,           \* physics_settings.enabled and whether gpu_compute is Some, as the loop captured them
    lockHeld,          \* who holds each RwLock the tick loop takes
    lastTick,          \* how the latest physics calculation of the loop ended
    sleptMs,           \* the milliseconds the loop slept after it released the locks
    pageGraph,         \* the graph get_paginated_graph_data reads: its node count and its edges
    overflowChecks,    \* whether the build checks integer arithmetic for overflow
    pageCall,          \* the page and page_size of the latest call
    pageResult,        \* what the latest call returned, or that it panicked
    gpuCompute,        \* the GPUCompute instance the tick loop captured, or NoGpu
    taskPc,            \* where each task that takes the service's locks stands
    rwLock,            \* the writer and the readers of each RwLock
    stepsLeft,         \* the steps the session's layout request has still to make
    lastCall,          \* the executor the latest tick invoked, how it returned, and the
                       \* iteration count the GPU executor started from
    simulation_mode,   \* WebSocketSession.simulation_mode of each session
    open,              \* whether each session's actor is running
    outbox,            \* the frames the latest step has written to each session's socket
    hub,               \* the broadcast the latest step has handed to the websocket manager
    intervals,         \* how many run_interval schedulers each session has started
    processed,         \* how many text frames the sessions have handled
    lastStep           \* the executor of the latest physics step and the mode it ran under

builderVars == <<metadata, nextId, graph, lastBuild>>

rebuildVars == <<rebuildInProgress, pc, callKind, outcome, graphLock>>

physVars == <<graph_data, node_map, params, ticks>>

cacheVars == <<now, cache, positionsVersion, rpc, start_time, snap, served, tpc, wakeAt>>

\* the variables of the layout service, untouched by the builders
layoutVars == <<physVars, cacheVars>>

gpuInitVars == <<ipc, attempt, attempts, slept, initResult, svcGpu, tickGpu, tickExecutor>>

sessionVars == <<gpu_available, simulation_params, iteration_count, gpuPc, layoutLeft,
                 layoutIterations, layoutSteps, deviceWritten, hub,
                 simulation_mode, open, outbox, intervals, processed, lastStep>>

\* the variables of the GPU initialization and of the socket sessions
gpuVars == <<gpuInitVars, sessionVars>>

liveVars == <<silence>>
loopVars == <<loopPc, loopEnv, lockHeld, lastTick, sleptMs>>
pageVars == <<pageGraph, overflowChecks, pageCall, pageResult>>
deviceVars == <<gpuCompute, lastCall>>
lockVars == <<taskPc, rwLock, stepsLeft>>
auxVars == <<liveVars, loopVars, pageVars, deviceVars, lockVars>>
vars == <<builderVars, rebuildVars, physVars, cacheVars, gpuVars, auxVars>>

(***************************************************************************)
(* Helpers                                                                 *)
(***************************************************************************)
NoGraph == [none |-> TRUE]

\* all orders in which the elements of a finite set can be visited
Perms(S) ==
    {f \in [1..Cardinality(S) -> S] : \A x \in S : \E i \in 1..Cardinality(S) : f[i] = x}

RECURSIVE SubsetsUpTo(_, _)
\* the subsets of S with at most n elements
SubsetsUpTo(S, n) ==
    IF n = 0 THEN {{}}
    ELSE LET smaller == SubsetsUpTo(S, n - 1)
         IN  smaller \cup {T \cup {x} : T \in smaller, x \in S}

RECURSIVE DecDigits(_)
\* the decimal digits of n, most significant first ("" for 0, the empty id)
DecDigits(n) == IF n = 0 THEN <<>> ELSE Append(DecDigits(n \div 10), n % 10)

RECURSIVE LexLess(_, _)
\* String's `<`: lexicographic order
LexLess(s, t) ==
    IF t = <<>> THEN FALSE
    ELSE IF s = <<>> THEN TRUE
    ELSE IF Head(s) # Head(t) THEN Head(s) < Head(t)
    ELSE LexLess(Tail(s), Tail(t))

\* source_numeric_id < target_numeric_id, on the id strings
IdLess(a, b) == LexLess(DecDigits(a), DecDigits(b))

(***************************************************************************)
(* File names and metadata stores                                          *)
(***************************************************************************)
Stems == {"a", "b"}

\* "a.md", "b.md" and "b.md.md"
FileNames == {<<"a", 1>>, <<"b", 1>>, <<"b", 2>>}

\* file_name.trim_end_matches(".md"): strips every trailing ".md"
TrimEndMatchesMd(file_name) == <<file_name[1], 0>>

C29_KeepName(node_id) == node_id

\* format!("{}.md", node_id)
FormatMd(node_id) == <<node_id[1], node_id[2] + 1>>

\* the (source_file, target_file) pairs a store over the keys `keys` can hold
LinkSlots(keys) == keys \X FileNames

\* the key sets of the stores: stores of at most two files
KeySets == SubsetsUpTo(FileNames, 2)

\* the values of the node_id field: 0 is the empty string
StoredIds == {0, 1, 2}

\* the values of a topic_counts entry
LinkCounts == {2, 3}

\* the file_size, the node_size (in thousandths) and the hyperlink_count of
\* the entry of file f: every file has its own, a.md those of the test
FileSizeOf(f) == IF f[1] = "a" THEN 1000 ELSE 20 * f[2]
NodeSizeOf(f) == IF f[1] = "a" THEN 1500 ELSE IF f[2] = 1 THEN 2000 ELSE 250
HyperlinkCountOf(f) == IF f[1] = "a" THEN 5 ELSE f[2] - 1

\* the metadata store with the keys `keys`, the stored ids `ids`, and the
\* topic_counts entries `links` with the counts `counts`; last_modified and
\* last_perplexity_process are times, perplexity_link is empty for a.md
MakeStore(keys, ids, links, counts) ==
    [f \in keys |->
        [file_name               |-> f,
         file_size               |-> FileSizeOf(f),
         node_size               |-> NodeSizeOf(f),
         hyperlink_count         |-> HyperlinkCountOf(f),
         sha1                    |-> <<"sha1", f>>,
         node_id                 |-> ids[f],
         last_modified           |-> f[2],
         perplexity_link         |-> IF f[1] = "a" THEN <<>> ELSE <<"link", f>>,
         last_perplexity_process |-> IF f[1] = "a" THEN <<>> ELSE <<f[2]>>,
         topic_counts |-> [t \in {l[2] : l \in {m \in links : m[1] = f}} |-> counts[<<f, t>>]]]]

\* the (source_file, target_file, count) triples of a store
LinksOf(store) ==
    UNION {{<<f, t, store[f].topic_counts[t]>> : t \in DOMAIN store[f].topic_counts}
           : f \in DOMAIN store}

\* the orders in which the loop over metadata.iter() and, inside it, the loop
\* over topic_counts visit the links: the links of one file are visited together
LinkOrders(store) ==
    {p \in Perms(LinksOf(store)) :
        \A i, j, k \in DOMAIN p : (i < j /\ j < k /\ p[i][1] = p[k][1]) => p[j][1] = p[i][1]}

\* HashMap::get
MapGet(map, key) == IF key \in DOMAIN map THEN <<map[key]>> ELSE <<>>

(***************************************************************************)
(* Node::new_with_id                                                       *)
(***************************************************************************)
\* stored: <<>> for None, <<s>> for Some(s); returns the id and the counter left behind
NewWithId(stored, next) ==
    IF stored # <<>> /\ stored[1] # 0
    THEN [id |-> stored[1], next |-> next]
    ELSE [id |-> next, next |-> next + 1]

(***************************************************************************)
(* First pass of the builder: one node per valid metadata id               *)
(***************************************************************************)
\* valid_nodes: the key of every entry with ".md" stripped
ValidNodes(store) == {TrimEndMatchesMd(f) : f \in DOMAIN store}

\* the stored node id of the entry the builder looks up for node_id;
\* `lookup` is graph.metadata at the time of the first pass
StoredNodeId(lookup, node_id) ==
    LET metadata_entry == MapGet(lookup, FormatMd(node_id))
    IN  IF metadata_entry = <<>> THEN <<>> ELSE <<metadata_entry[1].node_id>>

\* graph.id_to_metadata.insert(node.id, node_id)
MapInsert(map, key, value) ==
    [k \in DOMAIN map \cup {key} |-> IF k = key THEN value ELSE map[k]]

\* u64::to_string, usize::to_string: the decimal digits, "0" for 0
U64ToString(n) == IF n = 0 THEN <<0>> ELSE DecDigits(n)

\* the digits after the point of m thousandths, with no trailing zero
FractionDigits(m) ==
    IF m = 0 THEN <<>>
    ELSE IF m % 100 = 0 THEN <<m \div 100>>
    ELSE IF m % 10 = 0 THEN <<m \div 100, (m \div 10) % 10>>
    ELSE <<m \div 100, (m \div 10) % 10, m % 10>>

\* f64::to_string of x thousandths: the digits before and after the point
\* ("1.5", "2", "0.25")
F64ToString(x) == [whole |-> U64ToString(x \div 1000), fraction |-> FractionDigits(x % 1000)]

\* DateTime<Utc>::to_string of the time t
DateToString(t) == <<"UTC", t>>

\* file_name[..file_name.len() - 3] if file_name.ends_with(".md"), else file_name
StripOneMd(file_name) ==
    IF file_name[2] >= 1 THEN <<file_name[1], file_name[2] - 1>> ELSE file_name

\* node.metadata after the inserts made for the entry `m`
NodeMetadata(m) ==
    LET required ==
            [fileName       |-> m.file_name,
             name           |-> StripOneMd(m.file_name),
             metadataId     |-> StripOneMd(m.file_name),
             fileSize       |-> U64ToString(m.file_size),
             nodeSize       |-> F64ToString(m.node_size),
             hyperlinkCount |-> U64ToString(m.hyperlink_count),
             sha1           |-> m.sha1,
             lastModified   |-> DateToString(m.last_modified)]
        linked ==
            IF m.perplexity_link # <<>>
            THEN MapInsert(required, "perplexityLink", m.perplexity_link)
            ELSE required
    IN  IF m.last_perplexity_process # <<>>
        THEN MapInsert(linked, "lastPerplexityProcess", DateToString(m.last_perplexity_process[1]))
        ELSE linked

\* the node built for node_id with the id `id` from the entry found for it
\* (<<>> if there is none)
NodeFrom(entry, node_id, id) ==
    [id          |-> id,
     metadata_id |-> node_id,
     label       |-> IF entry = <<>> THEN node_id ELSE TrimEndMatchesMd(entry[1].file_name),
     file_size   |-> IF entry = <<>> THEN 0 ELSE entry[1].file_size,
     size        |-> IF entry = <<>> THEN <<>> ELSE <<entry[1].node_size>>,
     metadata    |-> IF entry = <<>> THEN <<>> ELSE NodeMetadata(entry[1]),
     flags       |-> IF entry = <<>> THEN 0 ELSE 1]

\* the node built for node_id with the id `id`; `store` provides its fields
MakeNode(store, node_id, id) == NodeFrom(MapGet(store, FormatMd(node_id)), node_id, id)

\* graph.id_to_metadata.insert(node.id.clone(), node_id.clone()); graph.nodes.push(node)
PushNode(acc, node, node_id, next) ==
    [nodes          |-> Append(acc.nodes, node),
     id_to_metadata |-> MapInsert(acc.id_to_metadata, node.id, node_id),
     next           |-> next]

\* one pass of the loop over valid_nodes: `made` is the id Node::new_with_id gave
AddNode(acc, store, node_id, made) ==
    PushNode(acc, MakeNode(store, node_id, made.id), node_id, made.next)

RECURSIVE CreateNodes(_, _, _, _, _)
\* the loop over valid_nodes, visited in the order `order`
CreateNodes(order, i, lookup, store, acc) ==
    IF i > Len(order) THEN acc
    ELSE CreateNodes(order, i + 1, lookup, store,
             AddNode(acc, store, order[i],
                 NewWithId(StoredNodeId(lookup, order[i]), acc.next)))

(***************************************************************************)
(* Second pass of the builder: the edge map                                *)
(***************************************************************************)
\* graph.nodes.iter().find(|n| n.metadata_id == id): <<>> or the first match
FindNode(nodes, metadata_id) ==
    LET hits == {i \in 1..Len(nodes) : nodes[i].metadata_id = metadata_id}
    IN  IF hits = {} THEN <<>>
        ELSE <<nodes[CHOOSE i \in hits : \A j \in hits : i <= j]>>

\* the edge is created only if source_numeric_id != target_numeric_id
C4_SkipNothing(source_numeric_id, target_numeric_id) == FALSE

SkipSelf(source_numeric_id, target_numeric_id) ==
    source_numeric_id = target_numeric_id

C5_DirectedKey(source_numeric_id, target_numeric_id) ==
    <<source_numeric_id, target_numeric_id>>

\* edge_key: the pair with the smaller id string first
EdgeKey(source_numeric_id, target_numeric_id) ==
    IF IdLess(source_numeric_id, target_numeric_id)
    THEN <<source_numeric_id, target_numeric_id>>
    ELSE <<target_numeric_id, source_numeric_id>>

C6_Overwrite(weight, count) == count

\* and_modify(|weight| *weight += *count as f32)
AndModify(weight, count) == weight + count

\* edge_map.entry(edge_key).and_modify(..).or_insert(count)
EntryAdd(edge_map, edge_key, count) ==
    IF edge_key \in DOMAIN edge_map
    THEN [edge_map EXCEPT ![edge_key] = AndModify(@, count)]
    ELSE MapInsert(edge_map, edge_key, count)

RECURSIVE AccumulateEdges(_, _, _, _)
\* the loops over metadata.iter() and topic_counts, visited in the order `links`
AccumulateEdges(links, i, nodes, edge_map) ==
    IF i > Len(links) THEN edge_map
    ELSE LET source_node == FindNode(nodes, TrimEndMatchesMd(links[i][1]))
             target_node == FindNode(nodes, TrimEndMatchesMd(links[i][2]))
         IN  IF source_node = <<>> \/ target_node = <<>>
             THEN AccumulateEdges(links, i + 1, nodes, edge_map)
             ELSE IF SkipSelf(source_node[1].id, target_node[1].id)
             THEN AccumulateEdges(links, i + 1, nodes, edge_map)
             ELSE AccumulateEdges(links, i + 1, nodes,
                      EntryAdd(edge_map, EdgeKey(source_node[1].id, target_node[1].id), links[i][3]))

\* the edge map of a store, its links visited in the order `links`
EdgeMapOf(links, nodes) == AccumulateEdges(links, 1, nodes, <<>>)

\* edge_map.into_iter().map(Edge::new).collect(), iterated in the order `edgeOrder`
EdgesOf(edge_map, edgeOrder) ==
    [i \in 1..Len(edgeOrder) |->
        [source |-> edgeOrder[i][1], target |-> edgeOrder[i][2], weight |-> edge_map[edgeOrder[i]]]]

(***************************************************************************)
(* initialize_random_positions                                             *)
(***************************************************************************)
\* r = 3.0 * (0.9 + rng.gen_range(0.0..0.2)), in thousandths: 2700 <= r < 3300
RadiusMin == 2700
RadiusSup == 3300

\* Node i of N lies on the ray of the i-th Fibonacci-sphere point, at a random
\* radius in [RadiusMin, RadiusSup); its velocity is zero.
InitializeRandomPositions(nodes) ==
    [i \in 1..Len(nodes) |->
        [id          |-> nodes[i].id,
         metadata_id |-> nodes[i].metadata_id,
         label       |-> nodes[i].label,
         file_size   |-> nodes[i].file_size,
         size        |-> nodes[i].size,
         metadata    |-> nodes[i].metadata,
         flags       |-> nodes[i].flags,
         position    |-> [index |-> i - 1, count |-> Len(nodes), rmin |-> RadiusMin, rsup |-> RadiusSup],
         velocity    |-> <<0, 0, 0>>]]

(***************************************************************************)
(* The single-flight guard of the two builders                             *)
(***************************************************************************)
\* the tasks that may call a builder at the same time
Tasks == {"t1", "t2", "t3"}

C1_AlwaysOk(current) == TRUE

\* GRAPH_REBUILD_IN_PROGRESS.compare_exchange(false, true, ..).is_ok()
CompareExchangeOk(current) == current = FALSE

C2_KeepFlag(current) == current

\* RebuildGuard::drop: GRAPH_REBUILD_IN_PROGRESS.store(false)
RebuildGuardDrop(current) == FALSE

(***************************************************************************)
(* The two builders                                                        *)
(***************************************************************************)
\* the graph returned when edge_map.into_iter() visits the keys in `edgeOrder`
FinishGraph(store, created, edge_map, edgeOrder) ==
    [graph |-> [nodes          |-> InitializeRandomPositions(created.nodes),
                edges          |-> EdgesOf(edge_map, edgeOrder),
                metadata       |-> store,
                id_to_metadata |-> created.id_to_metadata],
     next  |-> created.next]

\* the graphs a build can return once the edge map is complete: one for each
\* order in which edge_map.into_iter() can visit its keys
CollectEdges(store, created, edge_map) ==
    {FinishGraph(store, created, edge_map, edgeOrder) : edgeOrder \in Perms(DOMAIN edge_map)}

\* the second pass, after the first pass has `created` the nodes
SecondPass(store, created, links) ==
    CollectEdges(store, created, EdgeMapOf(links, created.nodes))

\* The body both builders share after the guard, the nodes visited in the order
\* `nodeOrder` and the links in the order `links`; `lookup` is graph.metadata
\* as it is when the first pass reads it.
BuildGraphData(store, lookup, next, nodeOrder, links) ==
    SecondPass(store,
        CreateNodes(nodeOrder, 1, lookup, store,
            [nodes |-> <<>>, id_to_metadata |-> <<>>, next |-> next]),
        links)

\* build_graph_from_metadata(metadata): graph is GraphData::new() during the
\* first pass, so the lookup of the stored node id reads an empty map
BuildFromMetadataResult(store, next, nodeOrder, links) ==
    BuildGraphData(store, <<>>, next, nodeOrder, links)

\* build_graph(state): graph.metadata is copied from the current graph first
BuildGraphResult(store, next, nodeOrder, links) ==
    BuildGraphData(store, store, next, nodeOrder, links)

\* the readers that may call get_node_positions at the same time
Readers == {"r1", "r2"}

NoSnapshot == [version |-> 0, captured_at |-> 0]

NotServed == [from_cache |-> FALSE, snapshot |-> NoSnapshot, timestamp |-> 0, at |-> 0]

\* the service holds an empty graph and the executor has not stepped
PhysIdle ==
    /\ graph_data = [nodes |-> <<>>, edges |-> <<>>]
    /\ node_map = <<>>
    /\ params = [enable_bounds |-> FALSE]
    /\ ticks = 0

\* the cache is empty, no reader is calling, the tick loop is about to update
CacheIdle ==
    /\ now = 0
    /\ cache = <<>>
    /\ positionsVersion = 0
    /\ rpc = [r \in Readers |-> "idle"]
    /\ start_time = [r \in Readers |-> 0]
    /\ snap = [r \in Readers |-> NoSnapshot]
    /\ served = [r \in Readers |-> NotServed]
    /\ tpc = "update"
    /\ wakeAt = 0

\* the callers that may initialize the GPU at the same time, each with its own
\* clone of the GraphService
Callers == {"g1", "g2"}

\* the socket sessions
Sessions == {"s1", "s2"}

\* nothing is handed to the websocket manager
NoBroadcast == [from |-> "none", positions |-> "none", to |-> {}]

\* the tasks that take the write lock of the GPU executor: the tick loop, and
\* the GpuUpdate handler, the layout request and the fisheye request of each session
GpuTasks ==
    {<<"tick", "loop">>}
        \cup {<<kind, s>> : kind \in {"gpu_update", "layout", "fisheye"}, s \in Sessions}

NoStep == [executor |-> "none", mode |-> "none"]

\* no GPU initialization has been called
GpuInitIdle ==
    /\ ipc = [c \in Callers |-> "idle"]
    /\ attempt = [c \in Callers |-> 0]
    /\ attempts = [c \in Callers |-> <<>>]
    /\ slept = [c \in Callers |-> <<>>]
    /\ initResult = [c \in Callers |-> [kind |-> "none"]]
    /\ svcGpu = [c \in Callers |-> FALSE]
    /\ tickGpu = FALSE
    /\ tickExecutor = "none"

\* no session has received anything; WebSocketSession::new
SessionIdle ==
    /\ gpu_available = FALSE
    /\ simulation_params = <<"default", "none">>
    /\ iteration_count = 0
    /\ gpuPc = [t \in GpuTasks |-> "none"]
    /\ layoutLeft = [s \in Sessions |-> 0]
    /\ layoutIterations = [s \in Sessions |-> 0]
    /\ layoutSteps = [s \in Sessions |-> 0]
    /\ deviceWritten = FALSE
    /\ simulation_mode = [s \in Sessions |-> "Remote"]
    /\ open = [s \in Sessions |-> TRUE]
    /\ outbox = [s \in Sessions |-> <<>>]
    /\ hub = NoBroadcast
    /\ intervals = [s \in Sessions |-> 0]
    /\ processed = 0
    /\ lastStep = NoStep

GpuIdle == GpuInitIdle /\ SessionIdle

\* no time has been counted
LiveIdle == silence = [s \in Sessions |-> 0]

\* the RwLocks the tick loop takes
LoopLocks == {"graph_data", "node_map", "gpu_compute", "node_positions_cache"}

\* the tick loop has not been spawned
LoopIdle ==
    /\ loopPc = "none"
    /\ loopEnv = [enabled |-> FALSE, gpu |-> FALSE]
    /\ lockHeld = [l \in LoopLocks |-> "none"]
    /\ lastTick = "none"
    /\ sleptMs = 0

NoCall == [page |-> 0, page_size |-> 0]

NoResult == [kind |-> "none"]

\* get_paginated_graph_data has not been called
PageIdle ==
    /\ pageGraph = [total_nodes |-> 0, edges |-> <<>>]
    /\ overflowChecks = FALSE
    /\ pageCall = NoCall
    /\ pageResult = NoResult

NoGpu == [present |-> FALSE]

NoTick == [executor |-> "none", result |-> "none"]

\* no tick has run and the loop has no GPU executor
DeviceIdle == gpuCompute = NoGpu /\ lastCall = NoTick

\* the tasks that take the locks of the service and of the GPU
LockTasks == {"tick", "updater", "reader", "builder", "session"}

NoHolder == [writer |-> "none", readers |-> {}]

\* no task holds or wants a lock
LocksIdle ==
    /\ taskPc = [t \in LockTasks |-> "idle"]
    /\ rwLock = [l \in LoopLocks |-> NoHolder]
    /\ stepsLeft = 0

AuxIdle == LiveIdle /\ LoopIdle /\ PageIdle /\ DeviceIdle /\ LocksIdle

\* no build has been made
BuilderIdle == metadata = <<>> /\ nextId = 1 /\ graph = NoGraph /\ lastBuild = "none"

\* no rebuild call is in flight
RebuildIdle ==
    /\ rebuildInProgress = FALSE
    /\ pc = [t \in Tasks |-> "idle"]
    /\ callKind = [t \in Tasks |-> "none"]
    /\ outcome = [t \in Tasks |-> "none"]
    /\ graphLock = "free"

BuilderInit ==
    /\ \E keys \in KeySets :
         \E ids \in [keys -> StoredIds], links \in SubsetsUpTo(LinkSlots(keys), MaxLinks) :
            \E counts \in [links -> LinkCounts] :
               metadata = MakeStore(keys, ids, links, counts)
    /\ nextId = 1
    /\ graph = NoGraph
    /\ lastBuild = "none"

\* one call of build_graph_from_metadata(metadata), run to completion
BuildGraphFromMetadata ==
    /\ nextId <= MaxNextId
    /\ CompareExchangeOk(rebuildInProgress)
    /\ rebuildInProgress' = RebuildGuardDrop(TRUE)
    /\ \E nodeOrder \in Perms(ValidNodes(metadata)), links \in LinkOrders(metadata) :
         \E built \in BuildFromMetadataResult(metadata, nextId, nodeOrder, links) :
            /\ graph' = built.graph
            /\ nextId' = built.next
    /\ lastBuild' = "build_graph_from_metadata"
    /\ UNCHANGED <<metadata, pc, callKind, outcome, graphLock, layoutVars, gpuVars, auxVars>>

\* one call of build_graph(state), run to completion
BuildGraph ==
    /\ nextId <= MaxNextId
    /\ CompareExchangeOk(rebuildInProgress)
    /\ graphLock = "free"
    /\ rebuildInProgress' = RebuildGuardDrop(TRUE)
    /\ \E nodeOrder \in Perms(ValidNodes(metadata)), links \in LinkOrders(metadata) :
         \E built \in BuildGraphResult(metadata, nextId, nodeOrder, links) :
            /\ graph' = built.graph
            /\ nextId' = built.next
    /\ lastBuild' = "build_graph"
    /\ UNCHANGED <<metadata, pc, callKind, outcome, graphLock, layoutVars, gpuVars, auxVars>>

(***************************************************************************)
(* Properties of the built graph                                           *)
(***************************************************************************)
Built == graph # NoGraph

NodeIds == {graph.nodes[i].id : i \in 1..Len(graph.nodes)}

\* the id of the node built for a valid metadata id
IdOf(metadata_id) == FindNode(graph.nodes, metadata_id)[1].id

RECURSIVE SumCounts(_)
\* the sum of the counts of a set of (source_file, target_file, count) triples
SumCounts(links) ==
    IF links = {} THEN 0
    ELSE LET l == CHOOSE x \in links : TRUE
         IN  l[3] + SumCounts(links \ {l})

\* the topic_counts entries between the files of stem x and the files of stem y,
\* in both directions
LinksBetween(x, y) ==
    {l \in LinksOf(metadata) :
        \/ TrimEndMatchesMd(l[1]) = x /\ TrimEndMatchesMd(l[2]) = y
        \/ TrimEndMatchesMd(l[1]) = y /\ TrimEndMatchesMd(l[2]) = x}

\* the edges of the graph between the ids u and v, in either direction
EdgesBetween(u, v) ==
    {i \in 1..Len(graph.edges) :
        {graph.edges[i].source, graph.edges[i].target} = {u, v}}

\* C3: when the entry the builder reads for a node carries a node_id, the node
\* has exactly that id (stable ids across rebuilds).
C3_StoredIdReused ==
    Built =>
        \A i \in 1..Len(graph.nodes) :
            LET entry == MapGet(metadata, FormatMd(graph.nodes[i].metadata_id))
            IN  (entry # <<>> /\ entry[1].node_id # 0) =>
                    graph.nodes[i].id = entry[1].node_id

\* an edge joins two different ids, both ids of nodes of the graph
EdgeWellFormed(e) ==
    /\ e.source # e.target
    /\ e.source \in NodeIds
    /\ e.target \in NodeIds

\* C4 as stated: every edge has distinct endpoints that are node ids, and only
\* a topic_counts entry that references a file of the store other than its
\* source file produces an edge.
C4_EdgesFromPresentFiles ==
    Built =>
        \A i \in 1..Len(graph.edges) :
            /\ EdgeWellFormed(graph.edges[i])
            /\ \E l \in LinksOf(metadata) :
                  /\ l[2] # l[1]
                  /\ l[2] \in DOMAIN metadata
                  /\ {IdOf(TrimEndMatchesMd(l[1])), IdOf(TrimEndMatchesMd(l[2]))}
                        = {graph.edges[i].source, graph.edges[i].target}

\* C4 amended: every edge has distinct endpoints that are node ids, and only a
\* topic_counts entry whose name, with every trailing ".md" stripped, differs
\* from the stripped name of its source file and is the stripped name of some
\* key of the store produces an edge.
C4_EdgesFromKnownStems ==
    Built =>
        \A i \in 1..Len(graph.edges) :
            /\ EdgeWellFormed(graph.edges[i])
            /\ \E l \in LinksOf(metadata) :
                  /\ TrimEndMatchesMd(l[2]) # TrimEndMatchesMd(l[1])
                  /\ TrimEndMatchesMd(l[2]) \in ValidNodes(metadata)
                  /\ {IdOf(TrimEndMatchesMd(l[1])), IdOf(TrimEndMatchesMd(l[2]))}
                        = {graph.edges[i].source, graph.edges[i].target}

\* a built graph with an edge, from a store that also holds an entry naming
\* its own source file
C4_Witness ==
    /\ Built
    /\ Len(graph.edges) = 1
    /\ \E l \in LinksOf(metadata) : TrimEndMatchesMd(l[1]) = TrimEndMatchesMd(l[2])

\* C5: a built graph has at most one edge per unordered pair of ids.
C5_OneEdgePerPair ==
    Built =>
        \A i, j \in 1..Len(graph.edges) :
            {graph.edges[i].source, graph.edges[i].target}
                = {graph.edges[j].source, graph.edges[j].target} => i = j

\* a built graph whose store links a.md to b.md and b.md to a.md
C5_Witness ==
    /\ Built
    /\ Len(graph.edges) = 1
    /\ <<"a", 1>> \in DOMAIN metadata /\ <<"b", 1>> \in DOMAIN metadata
    /\ <<"b", 1>> \in DOMAIN metadata[<<"a", 1>>].topic_counts
    /\ <<"a", 1>> \in DOMAIN metadata[<<"b", 1>>].topic_counts

\* C6: in a graph built by build_graph_from_metadata, for any two nodes the
\* edge between them weighs the sum of the counts of all topic_counts entries
\* between their files in both directions (no edge when there is none), in
\* whatever order the entries are visited.
C6_WeightIsSum ==
    (Built /\ lastBuild = "build_graph_from_metadata") =>
        \A x, y \in ValidNodes(metadata) :
            x # y =>
                LET between == EdgesBetween(IdOf(x), IdOf(y))
                    total   == SumCounts(LinksBetween(x, y))
                IN  IF total = 0 THEN between = {}
                    ELSE /\ Cardinality(between) = 1
                         /\ \A i \in between : graph.edges[i].weight = total

\* a.md links b.md twice and b.md links a.md three times: one edge of weight 5
C6_Witness ==
    /\ Built /\ lastBuild = "build_graph_from_metadata"
    /\ <<"a", 1>> \in DOMAIN metadata /\ <<"b", 1>> \in DOMAIN metadata
    /\ MapGet(metadata[<<"a", 1>>].topic_counts, <<"b", 1>>) = <<2>>
    /\ MapGet(metadata[<<"b", 1>>].topic_counts, <<"a", 1>>) = <<3>>
    /\ Len(graph.edges) = 1
    /\ graph.edges[1].weight = 5

\* C7: in a built graph node ids are unique and each metadata_id has one id.
C7_UniqueIds ==
    Built =>
        \A i, j \in 1..Len(graph.nodes) :
            i # j => /\ graph.nodes[i].id # graph.nodes[j].id
                     /\ graph.nodes[i].metadata_id # graph.nodes[j].metadata_id

\* C8: id_to_metadata maps the id of every node to its metadata_id.
C8_IdToMetadata ==
    Built =>
        \A i \in 1..Len(graph.nodes) :
            /\ graph.nodes[i].id \in DOMAIN graph.id_to_metadata
            /\ graph.id_to_metadata[graph.nodes[i].id] = graph.nodes[i].metadata_id

Init == BuilderInit /\ RebuildIdle /\ PhysIdle /\ CacheIdle /\ GpuIdle /\ AuxIdle

Next == BuildGraphFromMetadata \/ BuildGraph

Spec == Init /\ [][Next]_vars

(***************************************************************************)
(* Concurrent rebuild calls                                                *)
(*                                                                         *)
(* A call passes the compare-and-swap, then (build_graph only) awaits the  *)
(* write lock of the service's graph_data, then builds and returns.  The   *)
(* await is the only suspension point after the guard is created: there    *)
(* the future can be dropped.  The tick loop takes the same write lock.    *)
(***************************************************************************)
\* the stores of the concrete scenarios: empty, and a.md and b.md linking each other
ScenarioStores ==
    {MakeStore({}, <<>>, {}, <<>>),
     MakeStore({<<"a", 1>>, <<"b", 1>>},
               [f \in {<<"a", 1>>, <<"b", 1>>} |-> 0],
               {<<<<"a", 1>>, <<"b", 1>>>>, <<<<"b", 1>>, <<"a", 1>>>>},
               [l \in {<<<<"a", 1>>, <<"b", 1>>>>, <<<<"b", 1>>, <<"a", 1>>>>} |->
                   IF l[1] = <<"a", 1>> THEN 2 ELSE 3])}

EntryPoints == {"build_graph_from_metadata", "build_graph"}

\* the call has passed the guard and has not returned
InProgress(t) == pc[t] \in {"awaiting_lock", "building"}

RebuildInit ==
    /\ metadata \in ScenarioStores
    /\ nextId = 1
    /\ graph = NoGraph
    /\ lastBuild = "none"
    /\ RebuildIdle
    /\ GpuIdle
    /\ PhysIdle
    /\ CacheIdle
    /\ AuxIdle

\* an entry point whose guard exists before the compare-and-swap, so that the
\* Busy return drops it
C38_CallClearsFlag(t, kind) ==
    /\ pc[t] = "idle"
    /\ nextId <= MaxNextId
    /\ callKind' = [callKind EXCEPT ![t] = kind]
    /\ IF CompareExchangeOk(rebuildInProgress)
       THEN /\ rebuildInProgress' = TRUE
            /\ pc' = [pc EXCEPT ![t] =
                        IF kind = "build_graph" THEN "awaiting_lock" ELSE "building"]
            /\ UNCHANGED outcome
       ELSE /\ pc' = [pc EXCEPT ![t] = "done"]
            /\ outcome' = [outcome EXCEPT ![t] = "busy"]
            /\ rebuildInProgress' = FALSE
    /\ UNCHANGED <<builderVars, graphLock, layoutVars, gpuVars, auxVars>>

\* task t calls an entry point: the compare-and-swap, and the Busy return
CallRebuild(t, kind) ==
    /\ pc[t] = "idle"
    /\ nextId <= MaxNextId
    /\ callKind' = [callKind EXCEPT ![t] = kind]
    /\ IF CompareExchangeOk(rebuildInProgress)
       THEN /\ rebuildInProgress' = TRUE
            /\ pc' = [pc EXCEPT ![t] =
                        IF kind = "build_graph" THEN "awaiting_lock" ELSE "building"]
            /\ UNCHANGED outcome
       ELSE /\ pc' = [pc EXCEPT ![t] = "done"]
            /\ outcome' = [outcome EXCEPT ![t] = "busy"]
            /\ UNCHANGED rebuildInProgress
    /\ UNCHANGED <<builderVars, graphLock, layoutVars, gpuVars, auxVars>>

\* build_graph: state.graph_service.get_graph_data_mut().await returns
AcquireGraphLock(t) ==
    /\ pc[t] = "awaiting_lock"
    /\ graphLock = "free"
    /\ graphLock' = t
    /\ pc' = [pc EXCEPT ![t] = "building"]
    /\ UNCHANGED <<builderVars, rebuildInProgress, callKind, outcome, layoutVars, gpuVars, auxVars>>

\* the rest of the builder up to Ok(graph); the locals are dropped on return
FinishRebuild(t) ==
    /\ pc[t] = "building"
    /\ \E nodeOrder \in Perms(ValidNodes(metadata)), links \in LinkOrders(metadata) :
         \E built \in IF callKind[t] = "build_graph"
                      THEN BuildGraphResult(metadata, nextId, nodeOrder, links)
                      ELSE BuildFromMetadataResult(metadata, nextId, nodeOrder, links) :
            /\ graph' = built.graph
            /\ nextId' = built.next
    /\ lastBuild' = callKind[t]
    /\ rebuildInProgress' = RebuildGuardDrop(rebuildInProgress)
    /\ graphLock' = IF graphLock = t THEN "free" ELSE graphLock
    /\ pc' = [pc EXCEPT ![t] = "done"]
    /\ outcome' = [outcome EXCEPT ![t] = "ok"]
    /\ UNCHANGED <<metadata, callKind, layoutVars, gpuVars, auxVars>>

\* the future of build_graph is dropped while it awaits the lock
AbortRebuild(t) ==
    /\ pc[t] = "awaiting_lock"
    /\ rebuildInProgress' = RebuildGuardDrop(rebuildInProgress)
    /\ pc' = [pc EXCEPT ![t] = "done"]
    /\ outcome' = [outcome EXCEPT ![t] = "aborted"]
    /\ UNCHANGED <<builderVars, callKind, graphLock, layoutVars, gpuVars, auxVars>>

\* the caller has taken the result; the task may call again
Retire(t) ==
    /\ pc[t] = "done"
    /\ pc' = [pc EXCEPT ![t] = "idle"]
    /\ outcome' = [outcome EXCEPT ![t] = "none"]
    /\ callKind' = [callKind EXCEPT ![t] = "none"]
    /\ UNCHANGED <<builderVars, rebuildInProgress, graphLock, layoutVars, gpuVars, auxVars>>

\* the tick loop: graph_data.write().await
TickLock ==
    /\ graphLock = "free"
    /\ graphLock' = "tick"
    /\ UNCHANGED <<builderVars, rebuildInProgress, pc, callKind, outcome, layoutVars, gpuVars, auxVars>>

\* the tick loop: drop(graph)
TickUnlock ==
    /\ graphLock = "tick"
    /\ graphLock' = "free"
    /\ UNCHANGED <<builderVars, rebuildInProgress, pc, callKind, outcome, layoutVars, gpuVars, auxVars>>

RebuildNext ==
    \/ \E t \in Tasks, kind \in EntryPoints : CallRebuild(t, kind)
    \/ \E t \in Tasks : AcquireGraphLock(t)
    \/ \E t \in Tasks : FinishRebuild(t)
    \/ \E t \in Tasks : AbortRebuild(t)
    \/ \E t \in Tasks : Retire(t)
    \/ TickLock
    \/ TickUnlock

SpecRebuild == RebuildInit /\ [][RebuildNext]_vars

\* C1: at most one rebuild is in progress, and a call made while one is in
\* progress returns 'Graph rebuild already in progress' and builds nothing.
C1_SingleFlight ==
    /\ [](Cardinality({t \in Tasks : InProgress(t)}) <= 1)
    /\ [][\A t \in Tasks :
            (pc[t] = "idle" /\ pc'[t] # "idle" /\ \E u \in Tasks : InProgress(u))
                => (pc'[t] = "done" /\ outcome'[t] = "busy" /\ graph' = graph)]_vars

\* one call is in progress and another has been rejected
C1_Witness ==
    \E t, u \in Tasks : InProgress(t) /\ pc[u] = "done" /\ outcome[u] = "busy"

\* C2: the flag is set only while a rebuild that acquired it is running, so a
\* call made when none is running is not rejected.
C2_FlagClearedOnExit ==
    rebuildInProgress => \E t \in Tasks : InProgress(t)

\* a rebuild has returned Ok, another was dropped, and the flag is clear
C2_Witness ==
    /\ ~rebuildInProgress
    /\ \E t, u \in Tasks :
          /\ pc[t] = "done" /\ outcome[t] = "ok"
          /\ pc[u] = "done" /\ outcome[u] = "aborted"

\* C38: a call rejected as busy leaves the flag set; the flag is cleared only
\* by the exit of the call that set it; so a call made while a rebuild is in
\* progress and another call has already been rejected is rejected too.
C38_BusyKeepsFlag ==
    [][/\ \A t \in Tasks :
            (pc[t] = "idle" /\ pc'[t] = "done" /\ outcome'[t] = "busy") =>
                (rebuildInProgress /\ rebuildInProgress')
       /\ (rebuildInProgress /\ ~rebuildInProgress') =>
             \E t \in Tasks : /\ InProgress(t)
                              /\ pc'[t] = "done"
                              /\ outcome'[t] \in {"ok", "aborted"}
       /\ \A t, u, v \in Tasks :
             (/\ InProgress(u)
              /\ pc[v] = "done" /\ outcome[v] = "busy"
              /\ pc[t] = "idle" /\ pc'[t] # "idle") =>
                 (pc'[t] = "done" /\ outcome'[t] = "busy" /\ InProgress(u)')]_vars

\* while one rebuild is in progress two other calls have been rejected, and
\* the flag is set
C38_Witness ==
    /\ rebuildInProgress
    /\ \E t, u, v \in Tasks :
          /\ u # v
          /\ InProgress(t)
          /\ pc[u] = "done" /\ outcome[u] = "busy"
          /\ pc[v] = "done" /\ outcome[v] = "busy"

(***************************************************************************)
(* The CPU layout executor                                                 *)
(*                                                                         *)
(* f32 quantities are fixed-point numbers in thousandths: 1.0 is Scale.    *)
(* Products and quotients are truncated towards zero.  NaN is a value of   *)
(* its own: every operation on it yields NaN and every comparison with it  *)
(* is false.  Infinities are outside the model.                            *)
(***************************************************************************)
\* one unit of an f32 quantity
Scale == 1000

\* the f32 that is not a number
NaN == 999999999

\* time_step: 0.016
TimeStep == 16

\* the floor of distance_squared, 0.0001, in millionths
MinDistanceSquared == 100

IsNaN(a) == a = NaN

\* a / b truncated towards zero, b > 0
TDiv(a, b) == IF a >= 0 THEN a \div b ELSE -((-a) \div b)

\* a + b
FAdd(a, b) == IF IsNaN(a) \/ IsNaN(b) THEN NaN ELSE a + b

\* a - b
FSub(a, b) == IF IsNaN(a) \/ IsNaN(b) THEN NaN ELSE a - b

\* -a
FNeg(a) == IF IsNaN(a) THEN NaN ELSE -a

\* a < b
FLess(a, b) == ~IsNaN(a) /\ ~IsNaN(b) /\ a < b

\* a > b
FGreater(a, b) == ~IsNaN(a) /\ ~IsNaN(b) /\ a > b

\* the product of two fixed-point numbers
FxMul(a, b) == IF IsNaN(a) \/ IsNaN(b) THEN NaN ELSE TDiv(a * b, Scale)

\* the quotient of two fixed-point numbers, b > 0
FxDiv(a, b) == IF IsNaN(a) \/ IsNaN(b) THEN NaN ELSE TDiv(a * Scale, b)

RECURSIVE SqrtSearch(_, _, _)
SqrtSearch(n, lo, hi) ==
    IF lo = hi THEN lo
    ELSE LET mid == (lo + hi + 1) \div 2
         IN  IF mid * mid <= n THEN SqrtSearch(n, mid, hi) ELSE SqrtSearch(n, lo, mid - 1)

\* distance_squared.sqrt(): from millionths to thousandths
Sqrt(n) == IF IsNaN(n) THEN NaN ELSE SqrtSearch(n, 0, 46340)

Axes == {1, 2, 3}

ZeroVec == <<0, 0, 0>>

VecAdd(a, b) == [k \in Axes |-> FAdd(a[k], b[k])]

VecNeg(a) == [k \in Axes |-> FNeg(a[k])]

\* dx, dy, dz from node a to node b
Delta(a, b) == [k \in Axes |-> FSub(b.position[k], a.position[k])]

\* dx * dx + dy * dy + dz * dz, in millionths
DistanceSquared(d) ==
    IF \E k \in Axes : IsNaN(d[k]) THEN NaN
    ELSE d[1] * d[1] + d[2] * d[2] + d[3] * d[3]

\* (mass / 255.0) * 10.0 * mass_scale
MassOf(node, prm) == TDiv(node.mass * 10 * prm.mass_scale, 255)

\* the repulsive force between nodes a and b: subtracted from a, added to b
RepulsionForce(a, b, prm) ==
    LET d                == Delta(a, b)
        distance_squared == DistanceSquared(d)
        distance         == Sqrt(distance_squared)
        repulsion_factor ==
            IF IsNaN(distance_squared) THEN NaN
            ELSE TDiv(FxMul(FxMul(prm.repulsion, MassOf(a, prm)), MassOf(b, prm))
                        * Scale * Scale, distance_squared)
    IN  IF FLess(distance_squared, MinDistanceSquared) THEN ZeroVec
        ELSE IF FGreater(distance, prm.max_repulsion_distance) THEN ZeroVec
        ELSE [k \in Axes |-> FxMul(FxDiv(d[k], distance), repulsion_factor)]

\* the spring force of an edge between nodes a and b: added to a, subtracted from b
SpringForce(a, b, weight, prm) ==
    LET d                == Delta(a, b)
        distance_squared == DistanceSquared(d)
        distance         == Sqrt(distance_squared)
        spring_factor    == FxMul(prm.spring_strength * weight, distance)
    IN  IF FLess(distance_squared, MinDistanceSquared) THEN ZeroVec
        ELSE [k \in Axes |-> FxMul(FxDiv(d[k], distance), spring_factor)]

\* graph.nodes.iter().position(|n| n.id == id): 0 for None
PositionOf(nodes, id) ==
    LET hits == {i \in 1..Len(nodes) : nodes[i].id = id}
    IN  IF hits = {} THEN 0 ELSE CHOOSE i \in hits : \A j \in hits : i <= j

\* the force terms of one step: each adds f to node `plus` and subtracts it from `minus`
ForceTerms(nodes, edges, prm) ==
    [t \in {<<"repulsion", i, j>> : i \in 1..Len(nodes), j \in 1..Len(nodes)}
            \cup {<<"spring", e, 0>> : e \in 1..Len(edges)} |->
        IF t[1] = "repulsion"
        THEN IF t[2] < t[3]
             THEN [plus |-> t[3], minus |-> t[2],
                   f |-> RepulsionForce(nodes[t[2]], nodes[t[3]], prm)]
             ELSE [plus |-> 0, minus |-> 0, f |-> ZeroVec]
        ELSE LET i == PositionOf(nodes, edges[t[2]].source)
                 j == PositionOf(nodes, edges[t[2]].target)
             IN  IF i = 0 \/ j = 0 THEN [plus |-> 0, minus |-> 0, f |-> ZeroVec]
                 ELSE [plus |-> i, minus |-> j,
                       f |-> SpringForce(nodes[i], nodes[j], edges[t[2]].weight, prm)]]

RECURSIVE SumForces(_, _, _)
\* forces[k]: the sum of the terms `keys` on node k
SumForces(terms, keys, k) ==
    IF keys = {} THEN ZeroVec
    ELSE LET key  == CHOOSE x \in keys : TRUE
             term == terms[key]
             rest == SumForces(terms, keys \ {key}, k)
         IN  IF term.plus = term.minus THEN rest
             ELSE IF term.plus = k THEN VecAdd(rest, term.f)
             ELSE IF term.minus = k THEN VecAdd(rest, VecNeg(term.f))
             ELSE rest

\* the clamp without the reflection of the velocity
C32_ClampKeepVelocity(position, velocity, half_bounds, boundary_damping) ==
    IF FGreater(position, half_bounds)
    THEN [position |-> half_bounds, velocity |-> velocity]
    ELSE IF FLess(position, FNeg(half_bounds))
    THEN [position |-> FNeg(half_bounds), velocity |-> velocity]
    ELSE [position |-> position, velocity |-> velocity]

C9_ClampAboveOnly(position, velocity, half_bounds, boundary_damping) ==
    IF FGreater(position, half_bounds)
    THEN [position |-> half_bounds, velocity |-> FxMul(FNeg(velocity), boundary_damping)]
    ELSE [position |-> position, velocity |-> velocity]

\* the boundary constraint on one axis: clamp the position, reverse and damp the velocity
ClampAxis(position, velocity, half_bounds, boundary_damping) ==
    IF FGreater(position, half_bounds)
    THEN [position |-> half_bounds, velocity |-> FxMul(FNeg(velocity), boundary_damping)]
    ELSE IF FLess(position, FNeg(half_bounds))
    THEN [position |-> FNeg(half_bounds), velocity |-> FxMul(FNeg(velocity), boundary_damping)]
    ELSE [position |-> position, velocity |-> velocity]

\* bounds_size / 2.0
HalfBounds(prm) == TDiv(prm.viewport_bounds, 2)

\* the update of one node from the force on it
Integrate(node, force, prm) ==
    LET velocity == [k \in Axes |->
                        FAdd(FxMul(node.velocity[k], prm.damping), FxMul(force[k], TimeStep))]
        position == [k \in Axes |-> FAdd(node.position[k], FxMul(velocity[k], TimeStep))]
        bounded  == [k \in Axes |->
                        IF prm.enable_bounds
                        THEN ClampAxis(position[k], velocity[k], HalfBounds(prm),
                                       prm.boundary_damping)
                        ELSE [position |-> position[k], velocity |-> velocity[k]]]
    IN  [id       |-> node.id,
         mass     |-> node.mass,
         position |-> [k \in Axes |-> bounded[k].position],
         velocity |-> [k \in Axes |-> bounded[k].velocity]]

\* calculate_layout_cpu(graph, node_map, prm)
CalculateLayoutCpu(g, nm, prm) ==
    IF Len(g.nodes) = 0 THEN [graph |-> g, node_map |-> nm]
    ELSE LET terms == ForceTerms(g.nodes, g.edges, prm)
             nodes == [i \in 1..Len(g.nodes) |->
                          Integrate(g.nodes[i], SumForces(terms, DOMAIN terms, i), prm)]
             \* the last node of each id is the one left in the map
             last(id) == CHOOSE i \in 1..Len(nodes) :
                            /\ nodes[i].id = id
                            /\ \A j \in 1..Len(nodes) : nodes[j].id = id => j <= i
         IN  [graph    |-> [nodes |-> nodes, edges |-> g.edges],
              node_map |-> [id \in DOMAIN nm |->
                               IF \E i \in 1..Len(nodes) : nodes[i].id = id
                               THEN [position |-> nodes[last(id)].position,
                                     velocity |-> nodes[last(id)].velocity,
                                     mass     |-> nodes[last(id)].mass]
                               ELSE nm[id]]]

\* largest number of nodes of the stepped graph
MaxNodes == 2
\* the executor makes at most this many steps
MaxTicks == 3

\* where a node starts and how fast: the position and the velocity
StartNodes ==
    {<<<<0, 0, 0>>, <<0, 0, 0>>>>,
     <<<<6000, 0, 0>>, <<1000, 0, 0>>>>,
     <<<<6000, 0, 0>>, <<-62500, 62500, 0>>>>,
     <<<<4990, 10, 0>>, <<0, 0, 0>>>>,
     <<<<4990, 10, 0>>, <<1000, 0, 0>>>>,
     <<<<-6000, 6000, -5000>>, <<-62500, 62500, 0>>>>,
     <<<<0, NaN, 0>>, <<0, 0, 0>>>>,
     <<<<0, 0, 0>>, <<0, 0, NaN>>>>}

\* the edges of the stepped graph: none, one between nodes "1" and "2", or one
\* whose target is not a node of the graph
StartEdges ==
    {<<>>,
     <<[source |-> 1, target |-> 2, weight |-> 5]>>,
     <<[source |-> 1, target |-> 9, weight |-> 2]>>}

\* the parameters the tick loop is started with: enable_bounds and viewport_bounds
\* vary, the others are fixed
StartParams ==
    {[enable_bounds          |-> b[1],
      viewport_bounds        |-> b[2],
      boundary_damping       |-> 500,
      damping                |-> 900,
      spring_strength        |-> 5,
      repulsion              |-> 100,
      max_repulsion_distance |-> 8000,
      mass_scale             |-> 1000] :
        b \in {<<TRUE, 10000>>, <<TRUE, -10000>>, <<FALSE, 10000>>}}

PhysicsInit ==
    /\ \E n \in 0..MaxNodes :
         \E start \in [1..n -> StartNodes] :
            /\ graph_data \in
                  [nodes : {[i \in 1..n |-> [id |-> i, mass |-> 26,
                                             position |-> start[i][1],
                                             velocity |-> start[i][2]]]},
                   edges : StartEdges]
            /\ node_map = [id \in 1..n |-> [position |-> start[id][1],
                                            velocity |-> start[id][2],
                                            mass |-> 26]]
    /\ params \in StartParams
    /\ ticks = 0

\* one iteration of the tick loop with physics enabled and no GPU executor:
\* calculate_layout_cpu under the write locks of graph_data and node_map
CpuTick ==
    /\ ticks < MaxTicks
    /\ LET stepped == CalculateLayoutCpu(graph_data, node_map, params)
       IN  /\ graph_data' = stepped.graph
           /\ node_map' = stepped.node_map
    /\ ticks' = ticks + 1
    /\ UNCHANGED <<params, builderVars, rebuildVars, gpuVars, cacheVars, auxVars>>

LayoutInit ==
    /\ PhysicsInit
    /\ CacheIdle
    /\ AuxIdle
    /\ RebuildIdle
    /\ GpuIdle
    /\ metadata = <<>> /\ nextId = 1 /\ graph = NoGraph /\ lastBuild = "none"

LayoutNext == CpuTick

SpecLayout == LayoutInit /\ [][LayoutNext]_vars

\* |p| <= half_bounds; false of NaN
WithinHalfBounds(p, half_bounds) ==
    /\ ~IsNaN(p)
    /\ p <= half_bounds
    /\ p >= -half_bounds

\* C9 as stated: after one or more steps with enable_bounds, every coordinate
\* of every node lies within viewport_bounds / 2 of the origin.
C9_WithinBounds ==
    (ticks >= 1 /\ params.enable_bounds) =>
        \A i \in 1..Len(graph_data.nodes), k \in Axes :
            WithinHalfBounds(graph_data.nodes[i].position[k], HalfBounds(params))

\* C9 amended: after one or more steps with enable_bounds and viewport_bounds
\* not negative, every coordinate of every node that is not NaN lies within
\* viewport_bounds / 2 of the origin.
C9_WithinBoundsUnlessNaN ==
    (ticks >= 1 /\ params.enable_bounds /\ params.viewport_bounds >= 0) =>
        \A i \in 1..Len(graph_data.nodes), k \in Axes :
            \/ IsNaN(graph_data.nodes[i].position[k])
            \/ WithinHalfBounds(graph_data.nodes[i].position[k], HalfBounds(params))

\* a node that started beyond the bounds was put on the boundary with its
\* velocity reversed, and another was put on the opposite boundary
C9_Witness ==
    /\ ticks >= 1 /\ params.enable_bounds /\ params.viewport_bounds >= 0
    /\ \E i, j \in 1..Len(graph_data.nodes) :
          /\ graph_data.nodes[i].position[1] = HalfBounds(params)
          /\ FLess(graph_data.nodes[i].velocity[1], 0)
          /\ graph_data.nodes[j].position[1] = -HalfBounds(params)

\* the integrated position and velocity of node i before the boundary constraint
IntegratedNode(i) ==
    LET terms == ForceTerms(graph_data.nodes, graph_data.edges, params)
    IN  Integrate(graph_data.nodes[i], SumForces(terms, DOMAIN terms, i),
                  [params EXCEPT !.enable_bounds = FALSE])

\* what one step leaves on axis k of a node whose integrated position is p and
\* integrated velocity v: beyond half_bounds the position is on the boundary of
\* the same side and the velocity is -v * boundary_damping, which does not
\* point outward when v did; within the bounds both are as integrated
ClampedOrFree(p, v, after_p, after_v, half_bounds, boundary_damping) ==
    IF FGreater(p, half_bounds)
    THEN /\ after_p = half_bounds
         /\ after_v = FxMul(FNeg(v), boundary_damping)
         /\ FGreater(v, 0) => (~IsNaN(after_v) /\ after_v <= 0)
    ELSE IF FLess(p, FNeg(half_bounds))
    THEN /\ after_p = FNeg(half_bounds)
         /\ after_v = FxMul(FNeg(v), boundary_damping)
         /\ FLess(v, 0) => (~IsNaN(after_v) /\ after_v >= 0)
    ELSE after_p = p /\ after_v = v

NODE_POSITION_CACHE_TTL_MS == 50

\* the sleep of the tick loop, in ms
TickSleepMs == 16

\* the clock stops here
MaxTime == 75

\* the amounts of time that pass between two steps
TimeSteps == {24, 25}

\* start_time.duration_since(timestamp): zero when timestamp is later
DurationSince(later, earlier) == IF later >= earlier THEN later - earlier ELSE 0

C10_FreshAtTtl(age) == age <= NODE_POSITION_CACHE_TTL_MS

\* age < Duration::from_millis(NODE_POSITION_CACHE_TTL_MS)
CacheFresh(age) == age < NODE_POSITION_CACHE_TTL_MS

CacheInit ==
    /\ CacheIdle
    /\ AuxIdle
    /\ PhysIdle
    /\ RebuildIdle
    /\ GpuIdle
    /\ metadata = <<>> /\ nextId = 1 /\ graph = NoGraph /\ lastBuild = "none"

\* time passes
AdvanceTime ==
    /\ \E d \in TimeSteps :
          /\ now + d <= MaxTime
          /\ now' = now + d
    /\ UNCHANGED <<cache, positionsVersion, rpc, start_time, snap, served, tpc, wakeAt>>
    /\ UNCHANGED <<builderVars, rebuildVars, gpuVars, physVars, auxVars>>

\* get_node_positions: let start_time = Instant::now()
GetNodePositionsStart(r) ==
    /\ rpc[r] = "idle"
    /\ start_time' = [start_time EXCEPT ![r] = now]
    /\ rpc' = [rpc EXCEPT ![r] = "check_cache"]
    /\ UNCHANGED <<now, cache, positionsVersion, snap, served, tpc, wakeAt>>
    /\ UNCHANGED <<builderVars, rebuildVars, gpuVars, physVars, auxVars>>

\* get_node_positions: under the read lock of the cache, serve a fresh entry
CheckCache(r) ==
    /\ rpc[r] = "check_cache"
    /\ IF cache # <<>> /\ CacheFresh(DurationSince(start_time[r], cache[1].timestamp))
       THEN /\ served' = [served EXCEPT ![r] =
                            [from_cache |-> TRUE, snapshot |-> cache[1].snapshot,
                             timestamp |-> cache[1].timestamp, at |-> now]]
            /\ rpc' = [rpc EXCEPT ![r] = "done"]
       ELSE /\ rpc' = [rpc EXCEPT ![r] = "read_graph"]
            /\ UNCHANGED served
    /\ UNCHANGED <<now, cache, positionsVersion, start_time, snap, tpc, wakeAt>>
    /\ UNCHANGED <<builderVars, rebuildVars, gpuVars, physVars, auxVars>>

\* get_node_positions: under the read lock of graph_data, graph.nodes.clone()
ReadGraph(r) ==
    /\ rpc[r] = "read_graph"
    /\ snap' = [snap EXCEPT ![r] = [version |-> positionsVersion, captured_at |-> now]]
    /\ rpc' = [rpc EXCEPT ![r] = "write_cache"]
    /\ UNCHANGED <<now, cache, positionsVersion, start_time, served, tpc, wakeAt>>
    /\ UNCHANGED <<builderVars, rebuildVars, gpuVars, physVars, auxVars>>

\* get_node_positions: under the write lock of the cache, store and return the nodes
WriteCache(r) ==
    /\ rpc[r] = "write_cache"
    /\ cache' = <<[snapshot |-> snap[r], timestamp |-> start_time[r]]>>
    /\ served' = [served EXCEPT ![r] =
                    [from_cache |-> FALSE, snapshot |-> snap[r],
                     timestamp |-> start_time[r], at |-> now]]
    /\ rpc' = [rpc EXCEPT ![r] = "done"]
    /\ UNCHANGED <<now, positionsVersion, start_time, snap, tpc, wakeAt>>
    /\ UNCHANGED <<builderVars, rebuildVars, gpuVars, physVars, auxVars>>

\* the caller has taken the nodes; the reader may call again
ReaderDone(r) ==
    /\ rpc[r] = "done"
    /\ rpc' = [rpc EXCEPT ![r] = "idle"]
    /\ start_time' = [start_time EXCEPT ![r] = 0]
    /\ snap' = [snap EXCEPT ![r] = NoSnapshot]
    /\ served' = [served EXCEPT ![r] = NotServed]
    /\ UNCHANGED <<now, cache, positionsVersion, tpc, wakeAt>>
    /\ UNCHANGED <<builderVars, rebuildVars, gpuVars, physVars, auxVars>>

\* the tick loop: the positions are updated under the write locks, the locks
\* are dropped and the sleep begins
TickUpdate ==
    /\ tpc = "update"
    /\ now + TickSleepMs <= MaxTime
    /\ positionsVersion' = positionsVersion + 1
    /\ wakeAt' = now + TickSleepMs
    /\ tpc' = "sleep"
    /\ UNCHANGED <<now, cache, rpc, start_time, snap, served>>
    /\ UNCHANGED <<builderVars, rebuildVars, gpuVars, physVars, auxVars>>

\* the tick loop: the sleep is over; under the write lock of the cache, *cache = None
TickClearCache ==
    /\ tpc = "sleep"
    /\ now >= wakeAt
    /\ cache' = <<>>
    /\ tpc' = "update"
    /\ UNCHANGED <<now, positionsVersion, rpc, start_time, snap, served, wakeAt>>
    /\ UNCHANGED <<builderVars, rebuildVars, gpuVars, physVars, auxVars>>

\* clear_position_cache()
ClearPositionCache ==
    /\ cache # <<>>
    /\ cache' = <<>>
    /\ UNCHANGED <<now, positionsVersion, rpc, start_time, snap, served, tpc, wakeAt>>
    /\ UNCHANGED <<builderVars, rebuildVars, gpuVars, physVars, auxVars>>

CacheNext ==
    \/ AdvanceTime
    \/ \E r \in Readers : GetNodePositionsStart(r)
    \/ \E r \in Readers : CheckCache(r)
    \/ \E r \in Readers : ReadGraph(r)
    \/ \E r \in Readers : WriteCache(r)
    \/ \E r \in Readers : ReaderDone(r)
    \/ TickUpdate
    \/ TickClearCache
    \/ ClearPositionCache

SpecCache == CacheInit /\ [][CacheNext]_vars

\* the call of reader r has returned a snapshot taken from the cache
ServedFromCache(r) == rpc[r] = "done" /\ served[r].from_cache

\* C10 as stated: a snapshot served from the cache was captured less than
\* 50 ms before the moment it is served.
C10_FreshWhenServed ==
    \A r \in Readers :
        ServedFromCache(r) =>
            served[r].at - served[r].snapshot.captured_at < NODE_POSITION_CACHE_TTL_MS

\* C10 amended: a snapshot served from the cache was stored with a timestamp,
\* and captured, less than 50 ms before the start_time of the call that serves
\* it; and a call that finds no such entry leaves its own snapshot in the cache.
C10_FreshAtCallStart ==
    /\ [](\A r \in Readers :
            ServedFromCache(r) =>
                /\ start_time[r] - served[r].timestamp < NODE_POSITION_CACHE_TTL_MS
                /\ start_time[r] - served[r].snapshot.captured_at < NODE_POSITION_CACHE_TTL_MS)
    /\ [][\A r \in Readers :
            (rpc[r] = "write_cache" /\ rpc'[r] = "done") =>
                /\ ~served'[r].from_cache
                /\ cache' = <<[snapshot |-> snap[r], timestamp |-> start_time[r]]>>]_vars

\* a call that started 49 ms after the cached entry was stored is served from the cache
C10_Witness ==
    \E r \in Readers :
        /\ ServedFromCache(r)
        /\ start_time[r] - served[r].timestamp = NODE_POSITION_CACHE_TTL_MS - 1

\* how many times the tick loop has cleared the cache: once after each update
\* but the one whose sleep is not over
Invalidations == IF tpc = "sleep" THEN positionsVersion - 1 ELSE positionsVersion

\* C40: whenever the cache holds a snapshot, the snapshot was read from the
\* graph after the latest invalidation of the cache by the tick loop: it has
\* the positions of the update that invalidation followed, or of a later one.
C40_NoStaleWriteBack ==
    cache # <<>> => cache[1].snapshot.version >= Invalidations

(***************************************************************************)
(* GPU initialization                                                      *)
(*                                                                         *)
(* GraphService::initialize_gpu returns at once when gpu_compute is Some;  *)
(* otherwise GPUCompute::new checks the node count and runs the device     *)
(* initialization under with_retry, and a test computation decides whether *)
(* the instance is kept.  GraphService is Clone: every caller works on its *)
(* own copy of the gpu_compute field.  The tick loop uses the gpu_compute  *)
(* it captured when the service was constructed.                           *)
(***************************************************************************)
\* MAX_GPU_INIT_RETRIES
MAX_GPU_INIT_RETRIES == 3

\* RETRY_DELAY_MS
RETRY_DELAY_MS == 500

RECURSIVE Shl(_, _)
\* a << n
Shl(a, n) == IF n = 0 THEN a ELSE 2 * Shl(a, n - 1)

C12_FlatDelay(base_delay_ms, n) == base_delay_ms

\* let delay = base_delay_ms * (1 << attempt)
RetryDelay(base_delay_ms, n) == base_delay_ms * Shl(1, n)

NoError == <<"none", 0>>

\* the callers are clones of one service: they start with the gpu_compute
\* the service was constructed with
GpuInitInit ==
    /\ tickGpu \in BOOLEAN
    /\ svcGpu = [c \in Callers |-> tickGpu]
    /\ ipc = [c \in Callers |-> "idle"]
    /\ attempt = [c \in Callers |-> 0]
    /\ attempts = [c \in Callers |-> <<>>]
    /\ slept = [c \in Callers |-> <<>>]
    /\ initResult = [c \in Callers |-> [kind |-> "none", error |-> NoError]]
    /\ tickExecutor = "none"
    /\ SessionIdle
    /\ BuilderIdle
    /\ RebuildIdle
    /\ PhysIdle
    /\ CacheIdle
    /\ AuxIdle

\* initialize_gpu up to the first attempt: the early return when the GPU is
\* there, and the node count check of GPUCompute::new
InitializeGpu(c) ==
    /\ ipc[c] = "idle"
    /\ IF svcGpu[c]
       THEN /\ ipc' = [ipc EXCEPT ![c] = "done"]
            /\ initResult' = [initResult EXCEPT ![c] = [kind |-> "ok", error |-> NoError]]
       ELSE \E too_many_nodes \in BOOLEAN :
               IF too_many_nodes
               THEN /\ ipc' = [ipc EXCEPT ![c] = "done"]
                    /\ initResult' = [initResult EXCEPT ![c] =
                                        [kind |-> "error", error |-> <<"node_count", 0>>]]
               ELSE /\ ipc' = [ipc EXCEPT ![c] = "attempting"]
                    /\ initResult' = [initResult EXCEPT ![c] =
                                        [kind |-> "running", error |-> NoError]]
    /\ UNCHANGED <<attempt, attempts, slept, svcGpu, tickGpu, tickExecutor>>
    /\ UNCHANGED <<sessionVars, builderVars, rebuildVars, physVars, cacheVars, auxVars>>

\* with_retry: one pass of the loop body up to the sleep
Attempt(c) ==
    /\ ipc[c] = "attempting"
    /\ attempt[c] < MAX_GPU_INIT_RETRIES
    /\ \E ok \in BOOLEAN :
          /\ attempts' = [attempts EXCEPT ![c] = Append(@, ok)]
          /\ IF ok
             THEN /\ ipc' = [ipc EXCEPT ![c] = "testing"]
                  /\ UNCHANGED <<attempt, slept, initResult>>
             ELSE LET delay      == RetryDelay(RETRY_DELAY_MS, attempt[c])
                      last_error == <<"attempt", attempt[c]>>
                  IN  IF attempt[c] + 1 < MAX_GPU_INIT_RETRIES
                      THEN /\ ipc' = [ipc EXCEPT ![c] = "sleeping"]
                           /\ slept' = [slept EXCEPT ![c] = Append(@, delay)]
                           /\ initResult' = [initResult EXCEPT ![c].error = last_error]
                           /\ UNCHANGED attempt
                      ELSE \* the loop ends: Err(last_error), wrapped by initialize_gpu
                           /\ ipc' = [ipc EXCEPT ![c] = "done"]
                           /\ attempt' = [attempt EXCEPT ![c] = @ + 1]
                           /\ initResult' = [initResult EXCEPT ![c] =
                                               [kind |-> "error", error |-> last_error]]
                           /\ UNCHANGED slept
    /\ UNCHANGED <<svcGpu, tickGpu, tickExecutor>>
    /\ UNCHANGED <<sessionVars, builderVars, rebuildVars, physVars, cacheVars, auxVars>>

\* with_retry: the sleep is over, the loop goes on
Sleep(c) ==
    /\ ipc[c] = "sleeping"
    /\ attempt' = [attempt EXCEPT ![c] = @ + 1]
    /\ ipc' = [ipc EXCEPT ![c] = "attempting"]
    /\ UNCHANGED <<attempts, slept, initResult, svcGpu, tickGpu, tickExecutor>>
    /\ UNCHANGED <<sessionVars, builderVars, rebuildVars, physVars, cacheVars, auxVars>>

\* a test computation whose failure leaves the new instance in the service
C36_KeepOnFailure(c) ==
    /\ ipc[c] = "testing"
    /\ \E ok \in BOOLEAN :
          /\ svcGpu' = [svcGpu EXCEPT ![c] = TRUE]
          /\ initResult' = [initResult EXCEPT ![c] =
                               IF ok THEN [kind |-> "ok", error |-> NoError]
                               ELSE [kind |-> "error", error |-> <<"test_computation", 0>>]]
    /\ ipc' = [ipc EXCEPT ![c] = "done"]
    /\ UNCHANGED <<attempt, attempts, slept, tickGpu, tickExecutor>>
    /\ UNCHANGED <<sessionVars, builderVars, rebuildVars, physVars, cacheVars, auxVars>>

\* initialize_gpu: the test computation on the new instance
TestComputation(c) ==
    /\ ipc[c] = "testing"
    /\ \E ok \in BOOLEAN :
          IF ok
          THEN /\ svcGpu' = [svcGpu EXCEPT ![c] = TRUE]
               /\ initResult' = [initResult EXCEPT ![c] = [kind |-> "ok", error |-> NoError]]
          ELSE /\ initResult' = [initResult EXCEPT ![c] =
                                   [kind |-> "error", error |-> <<"test_computation", 0>>]]
               /\ UNCHANGED svcGpu
    /\ ipc' = [ipc EXCEPT ![c] = "done"]
    /\ UNCHANGED <<attempt, attempts, slept, tickGpu, tickExecutor>>
    /\ UNCHANGED <<sessionVars, builderVars, rebuildVars, physVars, cacheVars, auxVars>>

\* the caller has taken the result and may call again
InitReturn(c) ==
    /\ ipc[c] = "done"
    /\ ipc' = [ipc EXCEPT ![c] = "idle"]
    /\ attempt' = [attempt EXCEPT ![c] = 0]
    /\ attempts' = [attempts EXCEPT ![c] = <<>>]
    /\ slept' = [slept EXCEPT ![c] = <<>>]
    /\ initResult' = [initResult EXCEPT ![c] = [kind |-> "none", error |-> NoError]]
    /\ UNCHANGED <<svcGpu, tickGpu, tickExecutor>>
    /\ UNCHANGED <<sessionVars, builderVars, rebuildVars, physVars, cacheVars, auxVars>>

\* one iteration of the tick loop: calculate_layout when the captured
\* gpu_compute is Some, calculate_layout_cpu otherwise
ExecutorTick ==
    /\ tickExecutor' = IF tickGpu THEN "gpu" ELSE "cpu"
    /\ UNCHANGED <<ipc, attempt, attempts, slept, initResult, svcGpu, tickGpu>>
    /\ UNCHANGED <<sessionVars, builderVars, rebuildVars, physVars, cacheVars, auxVars>>

GpuInitNext ==
    \/ \E c \in Callers : InitializeGpu(c)
    \/ \E c \in Callers : Attempt(c)
    \/ \E c \in Callers : Sleep(c)
    \/ \E c \in Callers : TestComputation(c)
    \/ \E c \in Callers : InitReturn(c)
    \/ ExecutorTick

SpecGpuInit == GpuInitInit /\ [][GpuInitNext]_vars

\* how many of the attempts in `results` failed
Failures(results) == Cardinality({i \in 1..Len(results) : ~results[i]})

\* the caller's initialization is running
Initializing(c) == ipc[c] \in {"attempting", "sleeping", "testing"}

\* at most 3 attempts, none after a success, and the error returned after the
\* 3rd failure is that of the 3rd attempt
RetryDiscipline(c) ==
    /\ Len(attempts[c]) <= MAX_GPU_INIT_RETRIES
    /\ \A i \in 1..Len(attempts[c]) : attempts[c][i] => i = Len(attempts[c])
    /\ (ipc[c] = "done" /\ Failures(attempts[c]) = MAX_GPU_INIT_RETRIES) =>
          initResult[c] = [kind |-> "error", error |-> <<"attempt", MAX_GPU_INIT_RETRIES - 1>>]

\* C12 as stated: at most 3 attempts, none after a success, the error of the
\* last attempt after the 3rd failure, and a wait of 500, 1000 and 2000 ms
\* after the 1st, 2nd and 3rd failed attempt.
C12_WaitAfterEveryFailure ==
    \A c \in Callers :
        /\ RetryDiscipline(c)
        /\ slept[c] = SubSeq(<<500, 1000, 2000>>, 1, Failures(attempts[c]))

\* C12 amended: at most 3 attempts, none after a success, the error of the
\* last attempt after the 3rd failure, a wait of 500 ms after the 1st failed
\* attempt and of 1000 ms after the 2nd, and no wait after the 3rd.
C12_WaitBetweenAttempts ==
    \A c \in Callers :
        /\ RetryDiscipline(c)
        /\ slept[c] = SubSeq(<<500, 1000>>, 1,
                             IF Failures(attempts[c]) < MAX_GPU_INIT_RETRIES
                             THEN Failures(attempts[c]) ELSE MAX_GPU_INIT_RETRIES - 1)

\* a call has failed three times and returned
C12_Witness ==
    \E c \in Callers :
        /\ ipc[c] = "done"
        /\ attempts[c] = <<FALSE, FALSE, FALSE>>
        /\ slept[c] = <<500, 1000>>

\* C36: a call of initialize_gpu on a service that has a GPU handle returns Ok
\* at once, without creating an instance, and the handle stays; the handle is
\* set only by a call whose device creation and test computation both
\* succeeded; and a call returns an error only with the handle still absent.
C36_IdempotentNoPartialState ==
    [][\A c \in Callers :
          /\ (svcGpu[c] /\ ipc[c] = "idle" /\ ipc'[c] # "idle") =>
                /\ ipc'[c] = "done"
                /\ initResult'[c] = [kind |-> "ok", error |-> NoError]
                /\ attempts'[c] = <<>>
          /\ svcGpu[c] => svcGpu'[c]
          /\ (~svcGpu[c] /\ svcGpu'[c]) =>
                /\ ipc[c] = "testing"
                /\ attempts[c] # <<>> /\ attempts[c][Len(attempts[c])]
                /\ initResult'[c].kind = "ok"
          /\ (ipc'[c] = "done" /\ initResult'[c].kind = "error") => ~svcGpu'[c]]_vars

\* a call whose device creation succeeded at the second attempt and whose
\* test computation failed has returned the error, and the service has no
\* handle
C36_Witness ==
    \E c \in Callers :
        /\ ipc[c] = "done"
        /\ attempts[c] = <<FALSE, TRUE>>
        /\ initResult[c] = [kind |-> "error", error |-> <<"test_computation", 0>>]
        /\ ~svcGpu[c]

\* C13: at most one GPU initialization is in progress, and once a call has
\* failed three times the tick loop steps with the CPU executor.
C13_SingleInitThenCpu ==
    /\ Cardinality({c \in Callers : Initializing(c)}) <= 1
    /\ (\E c \in Callers : ipc[c] = "done" /\ Failures(attempts[c]) = MAX_GPU_INIT_RETRIES)
          => tickExecutor \in {"none", "cpu"}

(***************************************************************************)
(* Socket sessions                                                         *)
(*                                                                         *)
(* A WebSocketSession is an actor: its handlers and the polls of the       *)
(* futures it spawned run one at a time.  The futures of all sessions and  *)
(* the tick loop of the layout service share one GPUCompute behind a       *)
(* tokio RwLock and take its write lock before they touch it.  A handler   *)
(* is one action, the frames its future sends included, up to the point    *)
(* where the future has to wait for the lock.  outbox[s] holds the frames  *)
(* the latest step has written to the socket of s, in their order; the     *)
(* frames of earlier steps have left it.                                   *)
(***************************************************************************)
\* text frames handled by all sessions together
MaxMessages == 2

\* params.iterations of a layout request
MaxIterations == 2

\* nodes returned by get_node_positions
MaxGpuNodes == 1

\* GPUCompute.iteration_count
MaxIterationCount == 2

\* GPU_UPDATE_INTERVAL, in ms
GPU_UPDATE_INTERVAL == 16

\* size_of::<BinaryNodeData>() asserted by test_node_data_memory_layout
BinaryNodeRecordSize == 28

\* an f32 field of NodePositionVelocity
F32Size == 4

\* the fields positions_to_binary copies from a GPUNode
NodePositionVelocity == <<"x", "y", "z", "vx", "vy", "vz">>

\* outcomes of the services the chat future calls
ChatOutcomes == {"create_failed", "send_failed", "ok"}

\* text frames a client may send; one without JSON is [json |-> FALSE].
\* type "ping" stands for any string the handler has no arm for, "missing"
\* for a JSON value without a string "type".
TextFrames ==
    {[json |-> FALSE]}
    \cup {[json |-> TRUE, type |-> "chat", message |-> FALSE]}
    \cup {[json |-> TRUE, type |-> "chat", message |-> TRUE, outcome |-> o] : o \in ChatOutcomes}
    \cup {[json |-> TRUE, type |-> "simulation_mode", mode |-> m] :
             m \in {"remote", "gpu", "local", "turbo", "missing"}}
    \cup {[json |-> TRUE, type |-> "layout", params |-> FALSE]}
    \cup {[json |-> TRUE, type |-> "layout", params |-> TRUE, iterations |-> i] :
             i \in 0..MaxIterations}
    \cup {[json |-> TRUE, type |-> t] : t \in {"fisheye", "initial_data", "ping", "missing"}}

\* ServerMessage::Error { message, code }
ErrorFrame(message, code) == [variant |-> "Error", message |-> message, code |-> code]

\* json!({"type": "completion", "message": ...})
Completion(message) == [variant |-> "completion", message |-> message]

RECURSIVE BytesOf(_, _)
\* bytemuck::bytes_of(&update): the bytes of fields k.. of the record of `node`
BytesOf(node, k) ==
    IF k > Len(NodePositionVelocity) THEN <<>>
    ELSE [b \in 1..F32Size |-> <<node, NodePositionVelocity[k], b>>] \o BytesOf(node, k + 1)

RECURSIVE positions_to_binary(_, _)
\* positions_to_binary on nodes i..n
positions_to_binary(i, n) ==
    IF i > n THEN <<>> ELSE BytesOf(i, 1) \o positions_to_binary(i + 1, n)

\* SendBinary(positions_to_binary(&nodes)) for n nodes; `positions` names the
\* node data read back: those of the last readback of a layout request (of the
\* start, before the first), or newer ones
BinaryFrame(n, positions) ==
    [variant |-> "binary", nodes |-> n, positions |-> positions,
     bytes |-> positions_to_binary(1, n)]

C21_BinaryOnly(n, positions) == <<BinaryFrame(n, positions)>>

\* what the layout future sends after its steps: the positions, or the error
\* of get_node_positions (n < 0), and the completion
LayoutReply(n, positions) ==
    <<IF n >= 0 THEN BinaryFrame(n, positions)
      ELSE ErrorFrame("Failed to get GPU node positions", "GPU_POSITION_ERROR"),
      Completion("Layout update complete")>>

\* the match of handle_simulation_mode
SimulationModeOf(mode) ==
    CASE mode = "remote" -> "Remote"
      [] mode = "gpu" -> "GPU"
      [] mode = "local" -> "Local"
      [] OTHER -> "Remote"

C19_RemoteOnly(mode) == mode = "Remote"

\* matches!(self.simulation_mode, SimulationMode::Remote | SimulationMode::GPU)
GpuEnabled(mode) == mode \in {"Remote", "GPU"}

\* ServerMessage::SimulationModeSet { mode, gpu_enabled }
SimulationModeSet(mode) ==
    [variant |-> "SimulationModeSet", mode |-> mode, gpu_enabled |-> GpuEnabled(SimulationModeOf(mode))]

C17_NoReply == <<>>

\* the `_` arm of the match on "type"
UnknownTypeReply == <<ErrorFrame("Unknown message type", "UNKNOWN_MESSAGE_TYPE")>>

\* the frames the chat future sends
ChatReply(result) ==
    CASE result = "create_failed" -> <<>>
      [] result = "send_failed" ->
            <<ErrorFrame("Failed to send message to RAGFlow", "RAGFLOW_SEND_ERROR"),
              Completion("Chat message handled")>>
      [] result = "stream_error" ->
            <<ErrorFrame("Error processing RAGFlow response", "RAGFLOW_PROCESSING_ERROR"),
              Completion("Chat message handled")>>
      [] result = "speech_failed" ->
            <<ErrorFrame("Failed to generate speech", "SPEECH_GENERATION_ERROR"),
              Completion("Chat message handled")>>
      [] OTHER -> <<Completion("Chat message handled")>>

\* the frames the initial_data future sends
InitialDataReply ==
    <<[variant |-> "GraphUpdate"], [variant |-> "SettingsUpdated"], Completion("Initial data sent")>>

\* the frames of the layout and fisheye futures when state.gpu_compute is None
NoGpuReply(message) ==
    <<ErrorFrame("GPU compute service not available", "GPU_SERVICE_ERROR"), Completion(message)>>

\* the handler has an arm for the frame and the arm's condition holds
IsChat(f) == f.json /\ f.type = "chat" /\ f.message
IsMode(f) == f.json /\ f.type = "simulation_mode" /\ f.mode # "missing"
IsLayout(f) == f.json /\ f.type = "layout" /\ f.params
IsFisheye(f) == f.json /\ f.type = "fisheye"
IsInitialData(f) == f.json /\ f.type = "initial_data"
IsUnknown(f) == f.json /\ f.type \in {"ping", "missing"}

\* the frames sent before the handler's future has to wait for the GPU
Replies(f) ==
    CASE IsChat(f) -> ChatReply(f.outcome)
      [] IsMode(f) -> <<SimulationModeSet(f.mode)>>
      [] IsLayout(f) -> IF gpu_available THEN <<>> ELSE NoGpuReply("Layout update complete")
      [] IsFisheye(f) -> IF gpu_available THEN <<>> ELSE NoGpuReply("Fisheye settings updated")
      [] IsInitialData(f) -> InitialDataReply
      [] IsUnknown(f) -> UnknownTypeReply
      [] OTHER -> <<>>

\* self.simulation_mode after the handler
ModeAfter(mode, f) ==
    CASE IsMode(f) -> SimulationModeOf(f.mode)
      [] IsInitialData(f) -> "Remote"
      [] OTHER -> mode

\* calls of start_gpu_updates made by the handler
IntervalsStarted(f) ==
    IF /\ gpu_available
       /\ \/ IsInitialData(f)
          \/ IsMode(f) /\ f.mode = "remote"
    THEN 1 ELSE 0

C22_AtLeastOnce(iterations) == IF iterations = 0 THEN 1 ELSE iterations

\* for _ in 0..params.iterations: how many times the body runs
StepsToRun(iterations) == iterations

\* the node data a readback finds on the device
PositionsRead == IF deviceWritten THEN "written" ELSE "kept"

\* no frame is written to any socket
NoFrames == [s \in Sessions |-> <<>>]

\* the write lock of the GPUCompute is held by task t
Holding(t) == gpuPc[t] \in {"holding", "awaiting", "broadcasting"}

C15_NoLock == TRUE

\* gpu_compute.write().await resolves
LockFree == \A t \in GpuTasks : ~Holding(t)

\* the actor of session s is inside a poll of one of its futures: between the
\* write lock and the next await
Busy(s) == \E kind \in {"gpu_update", "layout", "fisheye"} : gpuPc[<<kind, s>>] = "holding"

SessionInit ==
    /\ gpu_available \in BOOLEAN
    /\ simulation_params = <<"default", "none">>
    /\ iteration_count = 0
    /\ gpuPc = [t \in GpuTasks |-> "none"]
    /\ layoutLeft = [s \in Sessions |-> 0]
    /\ layoutIterations = [s \in Sessions |-> 0]
    /\ layoutSteps = [s \in Sessions |-> 0]
    /\ deviceWritten = FALSE
    /\ simulation_mode = [s \in Sessions |-> "Remote"]
    /\ open = [s \in Sessions |-> TRUE]
    /\ outbox = [s \in Sessions |-> <<>>]
    /\ hub = NoBroadcast
    /\ intervals = [s \in Sessions |-> 0]
    /\ processed = 0
    /\ lastStep = NoStep
    /\ GpuInitIdle
    /\ BuilderIdle
    /\ RebuildIdle
    /\ PhysIdle
    /\ CacheIdle
    /\ AuxIdle

\* StreamHandler::handle on Ok(ws::Message::Text(text))
ReceiveText(s, f) ==
    /\ open[s]
    /\ ~Busy(s)
    /\ processed < MaxMessages
    /\ (IsLayout(f) /\ gpu_available) => gpuPc[<<"layout", s>>] = "none"
    /\ (IsFisheye(f) /\ gpu_available) => gpuPc[<<"fisheye", s>>] = "none"
    /\ processed' = processed + 1
    /\ hub' = NoBroadcast
    /\ outbox' = [NoFrames EXCEPT ![s] = Replies(f)]
    /\ simulation_mode' = [simulation_mode EXCEPT ![s] = ModeAfter(@, f)]
    /\ intervals' = [intervals EXCEPT ![s] = @ + IntervalsStarted(f)]
    /\ gpuPc' = IF IsLayout(f) /\ gpu_available
                THEN [gpuPc EXCEPT ![<<"layout", s>>] = "waiting"]
                ELSE IF IsFisheye(f) /\ gpu_available
                THEN [gpuPc EXCEPT ![<<"fisheye", s>>] = "waiting"]
                ELSE gpuPc
    /\ layoutLeft' = IF IsLayout(f) /\ gpu_available
                     THEN [layoutLeft EXCEPT ![s] = StepsToRun(f.iterations)]
                     ELSE layoutLeft
    /\ layoutIterations' = IF IsLayout(f) /\ gpu_available
                           THEN [layoutIterations EXCEPT ![s] = f.iterations]
                           ELSE layoutIterations
    /\ UNCHANGED layoutSteps
    /\ UNCHANGED <<gpu_available, simulation_params, iteration_count, open,
                   lastStep, deviceWritten>>
    /\ UNCHANGED <<gpuInitVars, builderVars, rebuildVars, physVars, cacheVars, auxVars>>

\* the inbound items other than Text: the other frames and Err(e)
FrameKinds == {"Ping", "Pong", "Binary", "Continuation", "Nop", "Close", "Err"}

C25_StopsOnBinary(kind) == kind \in {"Binary", "Close", "Err"}

\* the arms of StreamHandler::handle that call ctx.stop()
StopsActor(kind) == kind \in {"Close", "Err"}

\* the frame the arm writes, ctx.pong(&msg) or ctx.close(reason); the other
\* arms write nothing
FrameReply(kind) ==
    CASE kind = "Ping" -> <<[variant |-> "Pong"]>>
      [] kind = "Close" -> <<[variant |-> "Close"]>>
      [] OTHER -> <<>>

\* StreamHandler::handle on a Ping, Pong, Binary, Continuation, Nop or Close
\* frame or on Err(e): on Close and Err the actor stops, its intervals and the
\* futures it spawned are dropped
ReceiveFrame(s, kind) ==
    /\ open[s]
    /\ ~Busy(s)
    /\ ~StopsActor(kind) => processed < MaxMessages
    /\ processed' = IF StopsActor(kind) THEN processed ELSE processed + 1
    /\ hub' = NoBroadcast
    /\ outbox' = [NoFrames EXCEPT ![s] = FrameReply(kind)]
    /\ IF StopsActor(kind)
       THEN /\ open' = [open EXCEPT ![s] = FALSE]
            /\ intervals' = [intervals EXCEPT ![s] = 0]
            /\ gpuPc' = [t \in GpuTasks |-> IF t[2] = s THEN "none" ELSE gpuPc[t]]
            /\ layoutLeft' = [layoutLeft EXCEPT ![s] = 0]
            /\ layoutIterations' = [layoutIterations EXCEPT ![s] = 0]
            /\ layoutSteps' = [layoutSteps EXCEPT ![s] = 0]
       ELSE UNCHANGED <<open, intervals, gpuPc, layoutLeft, layoutIterations, layoutSteps>>
    /\ silence' = IF kind = "Pong" THEN [silence EXCEPT ![s] = 0] ELSE silence
    /\ UNCHANGED <<gpu_available, simulation_params, iteration_count,
                   simulation_mode, lastStep, deviceWritten>>
    /\ UNCHANGED <<gpuInitVars, builderVars, rebuildVars, physVars, cacheVars, loopVars, pageVars,
                   deviceVars, lockVars>>

\* StreamHandler::handle on Ok(ws::Message::Close(reason))
ReceiveClose(s) == ReceiveFrame(s, "Close")

\* an interval of start_gpu_updates fires, addr.do_send(GpuUpdate), and
\* Handler<GpuUpdate>::handle makes the future that waits for the lock
IntervalFire(s) ==
    /\ open[s]
    /\ ~Busy(s)
    /\ intervals[s] > 0
    /\ gpuPc[<<"gpu_update", s>>] = "none"
    /\ gpuPc' = IF gpu_available
                THEN [gpuPc EXCEPT ![<<"gpu_update", s>>] = "waiting"]
                ELSE gpuPc
    /\ hub' = NoBroadcast
    /\ outbox' = NoFrames
    /\ UNCHANGED <<gpu_available, simulation_params, iteration_count,
                   layoutLeft, layoutIterations, layoutSteps, simulation_mode, open, intervals, processed,
                   lastStep, deviceWritten>>
    /\ UNCHANGED <<gpuInitVars, builderVars, rebuildVars, physVars, cacheVars, auxVars>>

\* task t leaves gpu_compute.write().await with the lock
Acquire(t) ==
    /\ gpuPc[t] = "waiting"
    /\ LockFree

\* the session's other variables, left alone by the futures
sessionRest == <<gpu_available, simulation_mode, open, intervals, processed>>

\* GPUCompute::step: compute_forces counts the iteration
Step(executor, mode) ==
    /\ iteration_count < MaxIterationCount
    /\ iteration_count' = iteration_count + 1
    /\ lastStep' = [executor |-> executor, mode |-> mode]
    /\ deviceWritten' = TRUE

\* the GpuUpdate future of session s takes the lock
GpuUpdateLock(s) ==
    /\ Acquire(<<"gpu_update", s>>)
    /\ gpuPc' = [gpuPc EXCEPT ![<<"gpu_update", s>>] = "holding"]
    /\ hub' = NoBroadcast
    /\ outbox' = NoFrames
    /\ UNCHANGED <<simulation_params, iteration_count, layoutLeft, layoutIterations, layoutSteps, lastStep, deviceWritten, sessionRest>>
    /\ UNCHANGED <<gpuInitVars, builderVars, rebuildVars, physVars, cacheVars, auxVars>>

C26_ReadAfterFailedStep(ok) == "awaiting"

\* the GpuUpdate future after gpu.step(): on Err it returns, on Ok it goes on
\* to gpu.get_node_positions().await
AfterStep(ok) == IF ok THEN "awaiting" ELSE "none"

\* the GpuUpdate future: gpu.step()
GpuUpdateStep(s) ==
    /\ gpuPc[<<"gpu_update", s>>] = "holding"
    /\ \E ok \in BOOLEAN :
          /\ IF ok
             THEN Step("gpu", simulation_mode[s])
             ELSE UNCHANGED <<iteration_count, lastStep, deviceWritten>>
          /\ gpuPc' = [gpuPc EXCEPT ![<<"gpu_update", s>>] = AfterStep(ok)]
    /\ hub' = NoBroadcast
    /\ outbox' = NoFrames
    /\ UNCHANGED <<simulation_params, layoutLeft, layoutIterations, layoutSteps, sessionRest>>
    /\ UNCHANGED <<gpuInitVars, builderVars, rebuildVars, physVars, cacheVars, auxVars>>

\* the GpuUpdate future: if let Ok(nodes) = gpu.get_node_positions().await;
\* on Err the future ends and the lock is dropped
GpuUpdateRead(s) ==
    /\ gpuPc[<<"gpu_update", s>>] = "awaiting"
    /\ \E ok \in BOOLEAN :
          gpuPc' = [gpuPc EXCEPT ![<<"gpu_update", s>>] = IF ok THEN "broadcasting" ELSE "none"]
    /\ hub' = NoBroadcast
    /\ outbox' = NoFrames
    /\ UNCHANGED <<simulation_params, iteration_count, layoutLeft, layoutIterations, layoutSteps,
                   lastStep, deviceWritten, sessionRest>>
    /\ UNCHANGED <<gpuInitVars, builderVars, rebuildVars, physVars, cacheVars, auxVars>>

\* state.websocket_manager.broadcast_binary(&nodes, false): the sessions the
\* manager sends the positions to
BroadcastTo == {o \in Sessions : open[o]}

\* the GpuUpdate future: the positions go to the websocket manager and the
\* lock is dropped
GpuUpdateBroadcast(s) ==
    /\ gpuPc[<<"gpu_update", s>>] = "broadcasting"
    /\ gpuPc' = [gpuPc EXCEPT ![<<"gpu_update", s>>] = "none"]
    /\ hub' = [from |-> s, positions |-> PositionsRead, to |-> BroadcastTo]
    /\ outbox' = NoFrames
    /\ UNCHANGED <<simulation_params, iteration_count, layoutLeft, layoutIterations, layoutSteps,
                   lastStep, deviceWritten, sessionRest>>
    /\ UNCHANGED <<gpuInitVars, builderVars, rebuildVars, physVars, cacheVars, auxVars>>

\* the layout future of session s takes the lock and updates the parameters
LayoutLock(s) ==
    /\ Acquire(<<"layout", s>>)
    /\ simulation_params' = <<"layout", s>>
    /\ gpuPc' = [gpuPc EXCEPT ![<<"layout", s>>] =
                    IF layoutLeft[s] = 0 THEN "awaiting" ELSE "holding"]
    /\ hub' = NoBroadcast
    /\ outbox' = NoFrames
    /\ UNCHANGED <<iteration_count, layoutLeft, layoutIterations, layoutSteps, lastStep, deviceWritten, sessionRest>>
    /\ UNCHANGED <<gpuInitVars, builderVars, rebuildVars, physVars, cacheVars, auxVars>>

\* the layout future: one pass of for _ in 0..params.iterations
LayoutStep(s) ==
    /\ gpuPc[<<"layout", s>>] = "holding"
    /\ layoutLeft[s] > 0
    /\ \E ok \in BOOLEAN :
          IF ok
          THEN /\ Step("gpu", simulation_mode[s])
               /\ layoutLeft' = [layoutLeft EXCEPT ![s] = @ - 1]
               /\ layoutSteps' = [layoutSteps EXCEPT ![s] = @ + 1]
               /\ gpuPc' = [gpuPc EXCEPT ![<<"layout", s>>] =
                               IF layoutLeft[s] = 1 THEN "awaiting" ELSE "holding"]
               /\ hub' = NoBroadcast
               /\ outbox' = NoFrames
               /\ UNCHANGED layoutIterations
          ELSE /\ hub' = NoBroadcast
               /\ outbox' = [NoFrames EXCEPT ![s] =
                               <<ErrorFrame("GPU compute step failed", "GPU_COMPUTE_ERROR")>>]
               /\ layoutLeft' = [layoutLeft EXCEPT ![s] = 0]
               /\ layoutIterations' = [layoutIterations EXCEPT ![s] = 0]
               /\ layoutSteps' = [layoutSteps EXCEPT ![s] = 0]
               /\ gpuPc' = [gpuPc EXCEPT ![<<"layout", s>>] = "none"]
               /\ UNCHANGED <<iteration_count, lastStep, deviceWritten>>
    /\ UNCHANGED <<simulation_params, sessionRest>>
    /\ UNCHANGED <<gpuInitVars, builderVars, rebuildVars, physVars, cacheVars, auxVars>>

\* the layout future: gpu.get_node_positions().await gives an error or some
\* nodes; the positions, or the error, and the completion are sent
LayoutFinish(s) ==
    /\ gpuPc[<<"layout", s>>] = "awaiting"
    /\ \E nodes \in {-1} \cup (0..MaxGpuNodes) :
          /\ hub' = NoBroadcast
          /\ outbox' = [NoFrames EXCEPT ![s] = LayoutReply(nodes, PositionsRead)]
          /\ deviceWritten' = IF nodes >= 0 THEN FALSE ELSE deviceWritten
    /\ gpuPc' = [gpuPc EXCEPT ![<<"layout", s>>] = "none"]
    /\ layoutIterations' = [layoutIterations EXCEPT ![s] = 0]
    /\ layoutSteps' = [layoutSteps EXCEPT ![s] = 0]
    /\ UNCHANGED <<simulation_params, iteration_count, layoutLeft, lastStep, sessionRest>>
    /\ UNCHANGED <<gpuInitVars, builderVars, rebuildVars, physVars, cacheVars, auxVars>>

\* the fisheye future: lock, update_fisheye_params, reply and completion
FisheyeRun(s) ==
    /\ Acquire(<<"fisheye", s>>)
    /\ hub' = NoBroadcast
    /\ outbox' = [NoFrames EXCEPT ![s] =
                     <<[variant |-> "FisheyeSettingsUpdated"],
                       Completion("Fisheye settings updated")>>]
    /\ gpuPc' = [gpuPc EXCEPT ![<<"fisheye", s>>] = "none"]
    /\ UNCHANGED <<simulation_params, iteration_count, layoutLeft, layoutIterations, layoutSteps, lastStep, deviceWritten, sessionRest>>
    /\ UNCHANGED <<gpuInitVars, builderVars, rebuildVars, physVars, cacheVars, auxVars>>

\* the tick loop with a GPU: calculate_layout takes the lock
GpuTickLock ==
    /\ gpu_available
    /\ gpuPc[<<"tick", "loop">>] = "none"
    /\ LockFree
    /\ gpuPc' = [gpuPc EXCEPT ![<<"tick", "loop">>] = "holding"]
    /\ hub' = NoBroadcast
    /\ outbox' = NoFrames
    /\ UNCHANGED <<simulation_params, iteration_count, layoutLeft, layoutIterations, layoutSteps, lastStep, deviceWritten, sessionRest>>
    /\ UNCHANGED <<gpuInitVars, builderVars, rebuildVars, physVars, cacheVars, auxVars>>

\* calculate_layout: update_graph_data (which copies the graph's nodes to the
\* device), update_simulation_params, step; the lock is dropped on return
GpuTickStep ==
    /\ gpuPc[<<"tick", "loop">>] = "holding"
    /\ \E result \in {"data_failed", "step_failed", "ok"} :
          /\ simulation_params' = IF result = "data_failed" THEN simulation_params
                                  ELSE <<"tick", "loop">>
          /\ IF result = "ok"
             THEN Step("gpu", "Remote")
             ELSE /\ UNCHANGED <<iteration_count, lastStep>>
                  /\ deviceWritten' = IF result = "step_failed" THEN TRUE ELSE deviceWritten
    /\ gpuPc' = [gpuPc EXCEPT ![<<"tick", "loop">>] = "none"]
    /\ hub' = NoBroadcast
    /\ outbox' = NoFrames
    /\ UNCHANGED <<layoutLeft, layoutIterations, layoutSteps, sessionRest>>
    /\ UNCHANGED <<gpuInitVars, builderVars, rebuildVars, physVars, cacheVars, auxVars>>

\* the tick loop without a GPU: calculate_layout_cpu
GpuTickFallback ==
    /\ ~gpu_available
    /\ lastStep' = [executor |-> "cpu", mode |-> "Remote"]
    /\ hub' = NoBroadcast
    /\ outbox' = NoFrames
    /\ UNCHANGED <<simulation_params, iteration_count, gpuPc, layoutLeft, layoutIterations, layoutSteps,
                   deviceWritten, sessionRest>>
    /\ UNCHANGED <<gpuInitVars, builderVars, rebuildVars, physVars, cacheVars, auxVars>>

SessionNext ==
    \/ \E s \in Sessions : \E f \in TextFrames : ReceiveText(s, f)
    \/ \E s \in Sessions : \E kind \in FrameKinds : ReceiveFrame(s, kind)
    \/ \E s \in Sessions : IntervalFire(s)
    \/ \E s \in Sessions : GpuUpdateLock(s)
    \/ \E s \in Sessions : GpuUpdateStep(s)
    \/ \E s \in Sessions : GpuUpdateRead(s)
    \/ \E s \in Sessions : GpuUpdateBroadcast(s)
    \/ \E s \in Sessions : LayoutLock(s)
    \/ \E s \in Sessions : LayoutStep(s)
    \/ \E s \in Sessions : LayoutFinish(s)
    \/ \E s \in Sessions : FisheyeRun(s)
    \/ GpuTickLock
    \/ GpuTickStep
    \/ GpuTickFallback

SpecSession == SessionInit /\ [][SessionNext]_vars

\* C11: every binary frame a session sends has 28 bytes for each of the
\* nodes it carries.
C11_FrameIs28PerNode ==
    \A s \in Sessions : \A i \in 1..Len(outbox[s]) :
        outbox[s][i].variant = "binary" =>
            Len(outbox[s][i].bytes) = BinaryNodeRecordSize * outbox[s][i].nodes

\* the periodic drivers that step the shared GPUCompute: the tick loop when
\* it has the GPU, and every interval of every session
StepDrivers ==
    (IF gpu_available THEN {<<"tick", "loop", 1>>} ELSE {})
        \cup UNION {{<<"interval", s, i>> : i \in 1..intervals[s]} : s \in Sessions}

\* C14: at most one periodic driver steps the shared simulation.
C14_OneStepper == Cardinality(StepDrivers) <= 1

\* the tasks inside the critical section of the GPUCompute
LockHolders == {t \in GpuTasks : Holding(t)}

\* C15: at most one task holds the GPU at a time, and while a layout request
\* holds it the parameters it wrote stay and every step is one of its own
\* iterations.
C15_OneGpuStepAtATime ==
    /\ [](Cardinality(LockHolders) <= 1)
    /\ [][\A s \in Sessions :
             Holding(<<"layout", s>>) =>
                /\ simulation_params' = simulation_params
                /\ iteration_count' # iteration_count =>
                      layoutLeft'[s] = layoutLeft[s] - 1]_vars

\* a layout request holds the GPU with steps made and steps to go, while
\* another future waits for the lock
C15_Witness ==
    \E s \in Sessions : \E t \in GpuTasks :
        /\ gpuPc[<<"layout", s>>] = "holding"
        /\ simulation_params = <<"layout", s>>
        /\ layoutLeft[s] > 0
        /\ iteration_count > 0
        /\ gpuPc[t] = "waiting"

\* C16: with a GPU at hand, every physics step runs on the executor of the
\* mode it was made under: the GPU for Remote and GPU, the CPU for Local.
C16_ModeSelectsExecutor ==
    (gpu_available /\ lastStep # NoStep) => lastStep.executor = (IF lastStep.mode = "Local" THEN "cpu" ELSE "gpu")

\* the fields of the session and of the simulation a handler may touch
handlerState == <<simulation_mode, intervals, gpuPc, layoutLeft, layoutIterations, layoutSteps, deviceWritten,
                  simulation_params,
                  iteration_count, lastStep>>

\* C17: a text frame with an unknown type is answered by exactly one Error
\* frame with code UNKNOWN_MESSAGE_TYPE, changes nothing and leaves the
\* session open.
C17_UnknownTypeAnswered ==
    [][processed' = processed + 1 => \A s \in Sessions : \A f \in TextFrames :
          (IsUnknown(f) /\ ReceiveText(s, f)) =>
              /\ outbox'[s] = <<[variant |-> "Error", message |-> "Unknown message type",
                                 code |-> "UNKNOWN_MESSAGE_TYPE"]>>
              /\ \A o \in Sessions \ {s} : outbox'[o] = <<>>
              /\ open' = open /\ open'[s]
              /\ handlerState' = handlerState]_vars

\* a session has answered a frame of unknown type and is open
C17_Witness ==
    \E s \in Sessions :
        /\ processed > 0
        /\ open[s]
        /\ outbox[s] = <<[variant |-> "Error", message |-> "Unknown message type",
                          code |-> "UNKNOWN_MESSAGE_TYPE"]>>

\* the requests that fail before any service is reached, and the chat whose
\* conversation cannot be created
IsFailure(f) ==
    \/ ~f.json
    \/ f.type = "chat" /\ (~f.message \/ f.outcome = "create_failed")
    \/ f.type = "simulation_mode" /\ f.mode = "missing"
    \/ f.type = "layout" /\ ~f.params

\* C18: every failed request is answered by an Error frame.
C18_FailuresAnswered ==
    [][processed' = processed + 1 => \A s \in Sessions : \A f \in TextFrames :
          (IsFailure(f) /\ ReceiveText(s, f)) =>
              \E i \in 1..Len(outbox'[s]) : outbox'[s][i].variant = "Error"]_vars

\* C19: a simulation_mode request for remote, gpu or local sets the session's
\* mode to the one asked for and is answered by exactly one SimulationModeSet
\* frame that names the mode, with gpu_enabled true for remote and gpu only.
C19_ModeSetAndAcknowledged ==
    [][processed' = processed + 1 => \A s \in Sessions : \A f \in TextFrames :
          (IsMode(f) /\ f.mode \in {"remote", "gpu", "local"} /\ ReceiveText(s, f)) =>
              /\ simulation_mode'[s] = (CASE f.mode = "remote" -> "Remote"
                                          [] f.mode = "gpu" -> "GPU"
                                          [] f.mode = "local" -> "Local")
              /\ outbox'[s] = <<[variant |-> "SimulationModeSet", mode |-> f.mode,
                                 gpu_enabled |-> (f.mode # "local")]>>]_vars

\* a session has been switched to GPU, and one to Local and has acknowledged it
C19_Witness ==
    /\ \E s \in Sessions : simulation_mode[s] = "GPU"
    /\ \E s \in Sessions :
          /\ simulation_mode[s] = "Local"
          /\ outbox[s] = <<[variant |-> "SimulationModeSet", mode |-> "local", gpu_enabled |-> FALSE]>>

\* C20: with a GPU at hand, an initial_data request and a simulation_mode
\* request for remote or gpu leave the session with a running interval, and
\* one for local starts none.
C20_SchedulerRunning ==
    [][processed' = processed + 1 => \A s \in Sessions : \A f \in TextFrames :
          (gpu_available /\ ReceiveText(s, f)) =>
              /\ (IsInitialData(f) \/ (IsMode(f) /\ f.mode \in {"remote", "gpu"})) =>
                    intervals'[s] >= 1
              /\ (IsMode(f) /\ f.mode = "local") => intervals'[s] = intervals[s]]_vars

\* the frames of a reply that are binary
BinaryFramesOf(frames) == {i \in 1..Len(frames) : frames[i].variant = "binary"}

\* the layout future of session s ends in this step
LayoutEnds(s) == gpuPc[<<"layout", s>>] # "none" /\ gpuPc'[<<"layout", s>>] = "none" /\ open'[s]

\* C21: a layout request with valid parameters makes exactly params.iterations
\* steps and then sends one binary frame followed by the completion text; when
\* a step or the readback fails, or there is no GPU, it sends an Error frame
\* and no binary frame.
C21_LayoutStepsThenBinaryThenComplete ==
    [][\A s \in Sessions :
          /\ LayoutEnds(s) =>
                \/ /\ layoutSteps[s] = layoutIterations[s]
                   /\ Len(outbox'[s]) = 2
                   /\ outbox'[s][1].variant = "binary"
                   /\ outbox'[s][2] = Completion("Layout update complete")
                \/ /\ outbox'[s][1].variant = "Error"
                   /\ outbox'[s][1].code \in {"GPU_COMPUTE_ERROR", "GPU_POSITION_ERROR"}
                   /\ BinaryFramesOf(outbox'[s]) = {}
          /\ (processed' = processed + 1 /\ ~gpu_available) =>
                \A f \in TextFrames :
                    (IsLayout(f) /\ ReceiveText(s, f)) =>
                        /\ outbox'[s][1].variant = "Error"
                        /\ outbox'[s][1].code = "GPU_SERVICE_ERROR"
                        /\ BinaryFramesOf(outbox'[s]) = {}]_vars

\* a layout request of two iterations has made both steps and has sent the
\* positions and the completion
C21_Witness ==
    \E s \in Sessions :
        /\ Len(outbox[s]) = 2
        /\ outbox[s][1].variant = "binary"
        /\ iteration_count = 2
        /\ outbox[s][2] = Completion("Layout update complete")
        /\ lastStep # NoStep
        /\ gpuPc[<<"layout", s>>] = "none"
\* a layout request with iterations = 0 is in flight in session s
ZeroLayout(s) == gpuPc[<<"layout", s>>] # "none" /\ layoutIterations[s] = 0

\* C22: a layout request with iterations = 0 makes no physics step and leaves
\* the node data as they are, and the positions it returns are those of the
\* layout request before it (those of the start, for the first) when nothing
\* wrote the node data in between.
C22_ZeroIterationsKeepPositions ==
    [][\A s \in Sessions :
          /\ (ZeroLayout(s) /\ Holding(<<"layout", s>>)) =>
                /\ UNCHANGED <<iteration_count, lastStep>>
                /\ deviceWritten' => deviceWritten
          /\ (ZeroLayout(s) /\ LayoutEnds(s)) =>
                /\ layoutSteps[s] = 0
                /\ (~deviceWritten /\ BinaryFramesOf(outbox'[s]) # {}) =>
                      outbox'[s][1].positions = "kept"]_vars

\* a layout request with iterations = 0 has returned positions after an earlier
\* request returned positions, with no step in between
C22_Witness ==
    \E s \in Sessions :
        /\ processed = 2
        /\ Len(outbox[s]) = 2
        /\ outbox[s][1].variant = "binary"
        /\ outbox[s][1].positions = "kept"
        /\ lastStep # NoStep
        /\ ~deviceWritten
        /\ gpuPc[<<"layout", s>>] = "none"
\* an earlier request of session s has responses still to send
ResponsesPending(s) == \E kind \in {"layout", "fisheye"} : gpuPc[<<kind, s>>] # "none"

\* C23: within a session the responses are written in the order of the
\* requests: no response to a request is written while an earlier request of
\* the session has responses still to send.
C23_ResponsesInRequestOrder ==
    [][processed' = processed + 1 => \A s \in Sessions : \A f \in TextFrames :
          (ReceiveText(s, f) /\ Replies(f) # <<>>) => ~ResponsesPending(s)]_vars
\* C25: the actor stops when it handles a Close frame, which it acknowledges
\* with a Close frame, or an error of the stream, and on no other inbound
\* frame; once it has stopped no GpuUpdate of its interval runs and no frame
\* is written to its socket.
C25_StopsOnCloseOrErrorOnly ==
    [][\A s \in Sessions :
          /\ (processed' # processed \/ open'[s] # open[s]) =>
                \A kind \in FrameKinds :
                    ReceiveFrame(s, kind) =>
                        /\ open'[s] <=> kind \notin {"Close", "Err"}
                        /\ kind = "Close" => outbox'[s] = <<[variant |-> "Close"]>>
          /\ (open[s] /\ ~open'[s]) => \E kind \in {"Close", "Err"} : ReceiveFrame(s, kind)
          /\ ~open'[s] =>
                /\ intervals'[s] = 0
                /\ gpuPc'[<<"gpu_update", s>>] = "none"
          /\ ~open[s] =>
                /\ ~open'[s]
                /\ outbox'[s] = <<>>]_vars

\* a session has acknowledged a Close frame and has stopped after it had
\* started its interval, while the other session is open
C25_Witness ==
    \E s \in Sessions : \E o \in Sessions :
        /\ ~open[s]
        /\ outbox[s] = <<[variant |-> "Close"]>>
        /\ simulation_mode[s] = "GPU"
        /\ open[o]
        /\ intervals[o] > 0

\* the GpuUpdate future of session s ends in this step, the session running on
GpuUpdateEnds(s) ==
    gpuPc[<<"gpu_update", s>>] # "none" /\ gpuPc'[<<"gpu_update", s>>] = "none" /\ open'[s]

\* C26 as stated: a GpuUpdate makes one physics step, and when the step has
\* succeeded the positions are broadcast, and when it has failed nothing is.
C26_StepSuccessBroadcasts ==
    [][\A s \in Sessions :
          GpuUpdateEnds(s) =>
              IF gpuPc[<<"gpu_update", s>>] = "holding"
              THEN hub' = NoBroadcast
              ELSE hub' # NoBroadcast]_vars

\* C26: a GpuUpdate makes one call of step and no more; when the step fails
\* the future ends and nothing is broadcast; when the step has succeeded and
\* the readback fails nothing is broadcast either; when both have succeeded
\* the positions read are handed to the manager once, for all live sessions.
C26_BroadcastAfterStepAndReadback ==
    [][\A s \in Sessions :
          /\ (gpuPc[<<"gpu_update", s>>] = "holding" /\ gpuPc'[<<"gpu_update", s>>] # "holding") =>
                /\ hub' = NoBroadcast
                /\ IF gpuPc'[<<"gpu_update", s>>] = "awaiting"
                   THEN iteration_count' = iteration_count + 1
                   ELSE iteration_count' = iteration_count
          /\ gpuPc[<<"gpu_update", s>>] \in {"awaiting", "broadcasting"} =>
                iteration_count' = iteration_count
          /\ (GpuUpdateEnds(s) /\ gpuPc[<<"gpu_update", s>>] = "awaiting") => hub' = NoBroadcast
          /\ (GpuUpdateEnds(s) /\ gpuPc[<<"gpu_update", s>>] = "broadcasting") =>
                hub' = [from |-> s, positions |-> "written", to |-> {o \in Sessions : open[o]}]
          /\ hub'.from = s => gpuPc[<<"gpu_update", s>>] = "broadcasting"]_vars

\* the GpuUpdate of a session has made its step and read the positions, and
\* they have been handed to the manager for both sessions
C26_Witness ==
    /\ hub.from \in Sessions
    /\ hub.to = Sessions
    /\ iteration_count > 0
    /\ gpuPc[<<"gpu_update", hub.from>>] = "none"

\* the node carries the fields of the entry `m` in its metadata map
CarriesFields(node, m) ==
    /\ {"fileName", "fileSize", "nodeSize", "hyperlinkCount", "sha1", "lastModified"}
          \subseteq DOMAIN node.metadata
    /\ node.metadata["fileName"] = m.file_name
    /\ node.metadata["fileSize"] = U64ToString(m.file_size)
    /\ node.metadata["nodeSize"] = F64ToString(m.node_size)
    /\ node.metadata["hyperlinkCount"] = U64ToString(m.hyperlink_count)
    /\ node.metadata["sha1"] = m.sha1
    /\ node.metadata["lastModified"] = DateToString(m.last_modified)

\* the graph has exactly one node for the key f, with the key's stripped name,
\* flags = 1 and the fields of the key's entry
OneNodeFor(f) ==
    /\ Cardinality({i \in 1..Len(graph.nodes) :
                       graph.nodes[i].metadata_id = TrimEndMatchesMd(f)}) = 1
    /\ \A i \in 1..Len(graph.nodes) :
          graph.nodes[i].metadata_id = TrimEndMatchesMd(f) =>
              /\ graph.nodes[i].flags = 1
              /\ CarriesFields(graph.nodes[i], metadata[f])

\* C29 as stated: for every key of the store the built graph has one node
\* with the key's stripped name, flags = 1 and the six fields of the key's entry.
C29_NodePerKey ==
    (Built /\ lastBuild = "build_graph_from_metadata") =>
        \A f \in DOMAIN metadata : OneNodeFor(f)

\* C29: for every key of the store that is its stripped name followed by one
\* ".md", the built graph has one node with that name, flags = 1 and the six
\* fields of the key's entry.
C29_NodePerPlainKey ==
    (Built /\ lastBuild = "build_graph_from_metadata") =>
        \A f \in DOMAIN metadata : f[2] = 1 => OneNodeFor(f)

\* a.md and b.md have been built into two nodes
C29_Witness ==
    /\ Built /\ lastBuild = "build_graph_from_metadata"
    /\ DOMAIN metadata = {<<"a", 1>>, <<"b", 1>>}
    /\ Len(graph.nodes) = 2
    /\ \E i \in 1..2 : graph.nodes[i].metadata["nodeSize"] = [whole |-> <<1>>, fraction |-> <<5>>]

\* the metadata ids of the nodes of a graph, in the order of graph.nodes
NodeSequence(g) == [i \in 1..Len(g.nodes) |-> g.nodes[i].metadata_id]

\* C28: two builds from the same MetadataStore return the same nodes in the
\* same order and as many edges.
C28_BuildIsDeterministic ==
    [][(Built /\ lastBuild = "build_graph_from_metadata" /\ BuildGraphFromMetadata) =>
          /\ NodeSequence(graph') = NodeSequence(graph)
          /\ Len(graph'.edges) = Len(graph.edges)]_vars

(***************************************************************************)
(* Session liveness.  WebsocketSettings carries heartbeat_interval and     *)
(* heartbeat_timeout, and the session handles Ping and Pong frames.  The   *)
(* clock `silence` counts, for each open session, the time since its last  *)
(* inbound Pong (since its start, before the first), one heartbeat         *)
(* interval at a time.                                                     *)
(***************************************************************************)
\* heartbeat intervals the clock counts
MaxBeats == 5

\* fn default_heartbeat_interval() -> u64 { 15000 }
default_heartbeat_interval == 15000

\* fn default_heartbeat_timeout() -> u64 { 60000 }
default_heartbeat_timeout == 60000

LivenessInit ==
    /\ SessionInit
    /\ LiveIdle

\* one heartbeat interval passes; the actor has no timer of its own and no
\* started(), so nothing of the session runs
Elapse ==
    /\ \E s \in Sessions : open[s] /\ silence[s] < MaxBeats * default_heartbeat_interval
    /\ silence' = [s \in Sessions |->
                      IF open[s] /\ silence[s] < MaxBeats * default_heartbeat_interval
                      THEN silence[s] + default_heartbeat_interval
                      ELSE silence[s]]
    /\ outbox' = NoFrames
    /\ hub' = NoBroadcast
    /\ UNCHANGED <<gpu_available, simulation_params, iteration_count, gpuPc, layoutLeft,
                   layoutIterations, layoutSteps, deviceWritten, simulation_mode, open,
                   intervals, processed, lastStep>>
    /\ UNCHANGED <<gpuInitVars, builderVars, rebuildVars, physVars, cacheVars, loopVars, pageVars,
                   deviceVars, lockVars>>

LivenessNext ==
    \/ \E s \in Sessions : \E kind \in FrameKinds : ReceiveFrame(s, kind)
    \/ Elapse

SpecLiveness == LivenessInit /\ [][LivenessNext]_vars

\* C24: a session that has received no Pong for the heartbeat timeout has
\* closed its socket and stopped.
C24_SilentSessionStops ==
    \A s \in Sessions : silence[s] >= default_heartbeat_timeout => ~open[s]
(***************************************************************************)
(* The tick loop spawned by GraphService::new.  Each pass takes the write  *)
(* locks of graph_data and node_map, calculates the layout on the GPU or   *)
(* the CPU when physics is enabled, drops the two locks, sleeps and clears *)
(* the position cache.  Other tasks take and release the same locks.  The  *)
(* locks are tokio RwLocks, which serve their waiters in turn.             *)
(***************************************************************************)
LoopInit ==
    /\ loopPc = "lock_graph_data"
    /\ loopEnv \in [enabled : BOOLEAN, gpu : BOOLEAN]
    /\ lockHeld = [l \in LoopLocks |-> "none"]
    /\ lastTick = "none"
    /\ sleptMs = 0
    /\ LiveIdle
    /\ PageIdle
    /\ DeviceIdle
    /\ LocksIdle
    /\ GpuIdle
    /\ BuilderIdle
    /\ RebuildIdle
    /\ PhysIdle
    /\ CacheIdle

idleVars == <<builderVars, rebuildVars, physVars, cacheVars, gpuVars, liveVars, pageVars,
              deviceVars, lockVars>>

\* the loop takes lock l when no one holds it and goes on to `next`
LoopAcquire(l, at, next) ==
    /\ loopPc = at
    /\ lockHeld[l] = "none"
    /\ lockHeld' = [lockHeld EXCEPT ![l] = "loop"]
    /\ loopPc' = next

\* let mut graph = graph_data.write().await
LoopLockGraph ==
    /\ LoopAcquire("graph_data", "lock_graph_data", "lock_node_map")
    /\ UNCHANGED <<loopEnv, lastTick, sleptMs, idleVars>>

\* let mut node_map = node_map.write().await
LoopLockNodeMap ==
    /\ LoopAcquire("node_map", "lock_node_map", "layout")
    /\ UNCHANGED <<loopEnv, lastTick, sleptMs, idleVars>>

C27_ReturnOnError(result) == IF result = "failed" THEN "returned" ELSE "release"

\* if let Err(e) = ... { error!(...) } else { debug!(...) }: the loop goes on
\* to drop the locks, whatever the result
AfterLayout(result) == "release"

\* if physics_settings.enabled: calculate_layout_cpu without a GPU, which
\* returns Ok, or the call of calculate_layout; else the calculation is skipped
LoopLayout ==
    /\ loopPc = "layout"
    /\ IF ~loopEnv.enabled
       THEN lastTick' = "skipped" /\ loopPc' = AfterLayout("skipped")
       ELSE IF loopEnv.gpu
       THEN lastTick' = lastTick /\ loopPc' = "lock_gpu_compute"
       ELSE lastTick' = "ok" /\ loopPc' = AfterLayout("ok")
    /\ UNCHANGED <<loopEnv, lockHeld, sleptMs, idleVars>>

\* calculate_layout: let mut gpu_compute = gpu_compute.write().await
LoopLockGpu ==
    /\ LoopAcquire("gpu_compute", "lock_gpu_compute", "gpu_step")
    /\ UNCHANGED <<loopEnv, lastTick, sleptMs, idleVars>>

\* calculate_layout: update_graph_data, update_simulation_params, step and
\* get_node_data, each of which may fail; the guard is dropped on return
LoopGpuStep ==
    /\ loopPc = "gpu_step"
    /\ \E result \in {"ok", "failed"} :
          /\ lastTick' = result
          /\ loopPc' = AfterLayout(result)
    /\ lockHeld' = [lockHeld EXCEPT !["gpu_compute"] = "none"]
    /\ UNCHANGED <<loopEnv, sleptMs, idleVars>>

\* drop(graph); drop(node_map)
LoopRelease ==
    /\ loopPc = "release"
    /\ lockHeld' = [lockHeld EXCEPT !["graph_data"] = "none", !["node_map"] = "none"]
    /\ loopPc' = "sleep"
    /\ sleptMs' = 0
    /\ UNCHANGED <<loopEnv, lastTick, idleVars>>

\* tokio::time::sleep(Duration::from_millis(16)).await
LoopSleep ==
    /\ loopPc = "sleep"
    /\ sleptMs' = TickSleepMs
    /\ loopPc' = "clear_cache"
    /\ UNCHANGED <<loopEnv, lockHeld, lastTick, idleVars>>

\* let mut cache = node_positions_cache.write().await; *cache = None; the
\* guard is dropped at the end of the pass
LoopClearCache ==
    /\ loopPc = "clear_cache"
    /\ lockHeld["node_positions_cache"] = "none"
    /\ loopPc' = "lock_graph_data"
    /\ UNCHANGED <<loopEnv, lockHeld, lastTick, sleptMs, idleVars>>

\* another task takes a lock: a session its GPU lock, a request the graph,
\* the node map or the cache
OtherAcquire(l) ==
    /\ lockHeld[l] = "none"
    /\ lockHeld' = [lockHeld EXCEPT ![l] = "other"]
    /\ UNCHANGED <<loopPc, loopEnv, lastTick, sleptMs, idleVars>>

\* the other task drops its guard
OtherRelease(l) ==
    /\ lockHeld[l] = "other"
    /\ lockHeld' = [lockHeld EXCEPT ![l] = "none"]
    /\ UNCHANGED <<loopPc, loopEnv, lastTick, sleptMs, idleVars>>

LoopNext ==
    \/ LoopLockGraph
    \/ LoopLockNodeMap
    \/ LoopLayout
    \/ LoopLockGpu
    \/ LoopGpuStep
    \/ LoopRelease
    \/ LoopSleep
    \/ LoopClearCache
    \/ \E l \in LoopLocks : OtherAcquire(l)
    \/ \E l \in LoopLocks : OtherRelease(l)

\* the runtime polls the spawned loop, every holder of a lock drops it, and a
\* tokio RwLock hands the lock to a waiter that has queued for it
LoopFairness ==
    /\ SF_vars(LoopLockGraph)
    /\ SF_vars(LoopLockNodeMap)
    /\ SF_vars(LoopLockGpu)
    /\ SF_vars(LoopClearCache)
    /\ WF_vars(LoopLayout)
    /\ WF_vars(LoopGpuStep)
    /\ WF_vars(LoopRelease)
    /\ WF_vars(LoopSleep)
    /\ \A l \in LoopLocks : WF_vars(OtherRelease(l))

SpecTickLoop == LoopInit /\ [][LoopNext]_vars /\ LoopFairness

\* the loop holds the two locks and is about to calculate the layout
TickAttempted == loopPc = "layout"

\* C27: a failed physics calculation does not end the tick loop: the loop
\* drops both locks, sleeps 16 ms and makes the next attempt, and a tick is
\* attempted again and again for ever.
C27_TickLoopNeverStops ==
    /\ []<>TickAttempted
    /\ (lastTick = "failed" /\ loopPc = "release") ~> TickAttempted
    /\ [](loopPc \in {"sleep", "clear_cache", "lock_graph_data"} =>
             \A l \in LoopLocks : lockHeld[l] # "loop")
    /\ [][(loopPc = "clear_cache" /\ loopPc' # "clear_cache") => sleptMs = TickSleepMs]_vars

\* the GPU calculation has failed under both locks and the loop is about to
\* drop them
C27_Witness ==
    /\ lastTick = "failed"
    /\ loopPc = "release"
    /\ lockHeld["graph_data"] = "loop"
    /\ lockHeld["node_map"] = "loop"

(***************************************************************************)
(* get_paginated_graph_data.  The function reads the graph under the read  *)
(* lock and computes a page of it; it is a pure function of the graph, the *)
(* page and the page size.  The nodes are known by their index in          *)
(* graph.nodes, so that a graph too large to list can be paged.            *)
(***************************************************************************)
MaxPageNodes == 3
MaxPageEdges == 2
MaxPage == 2
MaxPageSize == 2

\* the bits of the significand of an f32
F32Bits == 24

RECURSIVE Exp2(_)
Exp2(k) == IF k = 0 THEN 1 ELSE 2 * Exp2(k - 1)

RECURSIVE Log2Floor(_)
Log2Floor(n) == IF n < 2 THEN 0 ELSE 1 + Log2Floor(n \div 2)

\* n rounded to the nearest multiple of s, a tie going to the even multiple
RoundToMultiple(n, s) ==
    LET lower == (n \div s) * s
    IN  IF 2 * (n % s) < s THEN lower
        ELSE IF 2 * (n % s) > s THEN lower + s
        ELSE IF (lower \div s) % 2 = 0 THEN lower ELSE lower + s

\* n as f32: exact below 2^24, above it the nearest f32
AsF32(n) ==
    IF n < Exp2(F32Bits) THEN n
    ELSE RoundToMultiple(n, Exp2(Log2Floor(n) - (F32Bits - 1)))

\* (a / b).ceil() for the f32 values a >= 0 and b >= 1 holding integers: the
\* quotient q + r/b is rounded to the nearest f32 before ceil sees it
CeilOfF32Quotient(a, b) ==
    LET q == a \div b
        r == a % b
    IN  IF r = 0 THEN AsF32(q)
        ELSE IF q = 0 THEN 1
        ELSE IF q >= Exp2(F32Bits)
        THEN LET s == Exp2(Log2Floor(q) - (F32Bits - 1))
             IN  IF 2 * (q % s) >= s THEN (q \div s) * s + s ELSE (q \div s) * s
        ELSE LET t == Exp2((F32Bits - 1) - Log2Floor(q))
             IN  IF r <= (b - 1) \div (2 * t) THEN q
                 ELSE IF b % (2 * t) = 0 /\ r = b \div (2 * t) /\ (t >= 2 \/ q % 2 = 0) THEN q
                 ELSE q + 1

\* ((total_nodes as f32 / page_size as f32).ceil()) as u32
TotalPages(total_nodes, page_size) ==
    CeilOfF32Quotient(AsF32(total_nodes), AsF32(page_size))

\* graph.nodes[i].id: the model gives the node at index i the id i + 1
IdAt(i) == i + 1

\* end - start in usize: when end < start the difference is 2^64 - value
UsizeSub(end, start) ==
    IF end >= start THEN [overflow |-> FALSE, value |-> end - start]
    ELSE [overflow |-> TRUE, value |-> start - end]

\* std::cmp::min
Min(a, b) == IF a <= b THEN a ELSE b

\* graph.nodes.iter().skip(start).take(count): the ids of the nodes taken; a
\* wrapped count is larger than any vector
SkipTake(total_nodes, start, count) ==
    LET left  == IF start >= total_nodes THEN 0 ELSE total_nodes - start
        taken == IF count.overflow THEN left ELSE Min(count.value, left)
    IN  [i \in 1..taken |-> IdAt(start + i - 1)]

\* the ids of page_nodes for page and page_size, when end - start does not panic
PageNodes(total_nodes, page, page_size) ==
    SkipTake(total_nodes, page * page_size,
        UsizeSub(Min((page + 1) * page_size, total_nodes), page * page_size))

\* node_ids: the set of the ids of page_nodes
PageNodeIds(page_nodes) == {page_nodes[i] : i \in DOMAIN page_nodes}

\* filter(|e| node_ids.contains(&e.source) || node_ids.contains(&e.target))
TouchesPage(e, node_ids) == e[1] \in node_ids \/ e[2] \in node_ids

\* graph.edges.iter().filter(..).cloned().collect()
PageEdges(edges, node_ids) ==
    LET Kept(e) == TouchesPage(e, node_ids)
    IN  SelectSeq(edges, Kept)

\* whether the subtraction end - start panics: only a build that checks
\* arithmetic for overflow does
SubPanics(checks, count) == checks /\ count.overflow

\* the value get_paginated_graph_data returns for the graph g
PaginatedGraphData(g, page, page_size) ==
    [kind         |-> "ok",
     nodes        |-> PageNodes(g.total_nodes, page, page_size),
     edges        |-> PageEdges(g.edges, PageNodeIds(PageNodes(g.total_nodes, page, page_size))),
     total_nodes  |-> g.total_nodes,
     total_edges  |-> Len(g.edges),
     total_pages  |-> TotalPages(g.total_nodes, page_size),
     current_page |-> page]

\* the node counts of the graphs: the small ones, and one more than 2^24
NodeCounts == (0..MaxPageNodes) \cup {Exp2(F32Bits) + 1}

\* the edges a graph of n nodes can have, between the nodes the model lists
EdgeLists(n) ==
    LET ids == {IdAt(i) : i \in 0..(Min(n, MaxPageNodes) - 1)}
    IN  UNION {[1..k -> ids \X ids] : k \in 0..MaxPageEdges}

PageInit ==
    /\ \E n \in NodeCounts :
         \E edges \in EdgeLists(n) : pageGraph = [total_nodes |-> n, edges |-> edges]
    /\ overflowChecks \in BOOLEAN
    /\ pageCall = NoCall
    /\ pageResult = NoResult
    /\ LiveIdle /\ LoopIdle /\ DeviceIdle /\ LocksIdle
    /\ GpuIdle
    /\ BuilderIdle
    /\ RebuildIdle
    /\ PhysIdle
    /\ CacheIdle

\* one call of get_paginated_graph_data(page, page_size), run to completion
GetPaginatedGraphData(page, page_size) ==
    /\ pageCall' = [page |-> page, page_size |-> page_size]
    /\ pageResult' =
          IF SubPanics(overflowChecks,
                 UsizeSub(Min((page + 1) * page_size, pageGraph.total_nodes), page * page_size))
          THEN [kind |-> "panic"]
          ELSE PaginatedGraphData(pageGraph, page, page_size)
    /\ UNCHANGED <<pageGraph, overflowChecks>>
    /\ UNCHANGED <<builderVars, rebuildVars, physVars, cacheVars, gpuVars, liveVars, loopVars,
                   deviceVars, lockVars>>

PageNext == \E page \in 0..MaxPage, page_size \in 1..MaxPageSize : GetPaginatedGraphData(page, page_size)

SpecPaginate == PageInit /\ [][PageNext]_vars

\* C30 as stated: for every page >= 0 and page_size >= 1 the call returns
\* (never fails) the nodes at the indices [page * page_size,
\* min((page + 1) * page_size, N)), exactly the edges with an endpoint among
\* them, and total_pages = ceil(N / page_size); over the pages 0..total_pages-1
\* every node is in exactly one window.
C30_PagesPartitionNodes ==
    pageResult # NoResult =>
        LET n         == pageGraph.total_nodes
            page      == pageCall.page
            page_size == pageCall.page_size
            window    == IF page * page_size >= n THEN {}
                         ELSE page * page_size .. (Min((page + 1) * page_size, n) - 1)
            ids       == {IdAt(i) : i \in window}
        IN  /\ pageResult.kind = "ok"
            /\ Len(pageResult.nodes) = Cardinality(window)
            /\ \A k \in DOMAIN pageResult.nodes :
                  pageResult.nodes[k] = IdAt(page * page_size + k - 1)
            /\ Len(pageResult.edges) =
                  Cardinality({k \in DOMAIN pageGraph.edges :
                                  pageGraph.edges[k][1] \in ids \/ pageGraph.edges[k][2] \in ids})
            /\ \A k \in DOMAIN pageResult.edges :
                  pageResult.edges[k][1] \in ids \/ pageResult.edges[k][2] \in ids
            /\ pageResult.total_pages = (n + page_size - 1) \div page_size
            /\ n <= MaxPageNodes + 1 =>
                  \A i \in 0..(n - 1) :
                      Cardinality({p \in 0..(pageResult.total_pages - 1) :
                          IdAt(i) \in PageNodeIds(PageNodes(n, p, page_size))}) = 1

(***************************************************************************)
(* The executors of the tick loop and the GPUCompute instance               *)
(***************************************************************************)

\* the node ids of the graphs given to the executors: "1" and "2"
DeviceIds == {U64ToString(1), U64ToString(2)}

\* the BinaryNodeData the i-th node of a graph starts with
StartData(i) ==
    IF i % 2 = 1
    THEN [position |-> <<6000, 0, 0>>, velocity |-> <<1000, 0, 0>>, mass |-> 26]
    ELSE [position |-> <<0, 4000, 0>>, velocity |-> <<0, -1000, 0>>, mass |-> 26]

\* node.data
DataOf(node) == [position |-> node.position, velocity |-> node.velocity, mass |-> node.mass]

\* node.data = data
WithData(node, data) ==
    [id |-> node.id, mass |-> data.mass, position |-> data.position, velocity |-> data.velocity]

\* the id lists of up to MaxNodes nodes, ids not necessarily distinct, in
\* which no "2" comes before a "1"
DeviceIdLists ==
    UNION {{ids \in [1..n -> DeviceIds] :
               \A i, j \in 1..n : i < j => ids[i][1] <= ids[j][1]} : n \in 0..MaxNodes}

\* the graphs a holder of the graph_data write guard stores: no edges
DeviceGraphs ==
    {[nodes |-> [i \in 1..Len(ids) |-> WithData([id |-> ids[i]], StartData(i))],
      edges |-> <<>>] : ids \in DeviceIdLists}

\* the maps a holder of the node_map write guard stores: any of the ids, each
\* with the data of a node that has the numeric id as its place in a graph
DeviceMaps == {[id \in keys |-> StartData(id[1])] : keys \in SUBSET DeviceIds}

\* the index the HashMap keeps for id after inserting every (id, idx) in order
LastIndexOf(nodes, id) ==
    CHOOSE i \in 1..Len(nodes) :
        /\ nodes[i].id = id
        /\ \A j \in 1..Len(nodes) : nodes[j].id = id => j <= i

\* node_indices.clear(); for (idx, node) in graph.nodes.iter().enumerate()
\* { node_indices.insert(node.id.clone(), idx) }
NodeIndices(nodes) ==
    [id \in {nodes[i].id : i \in 1..Len(nodes)} |-> LastIndexOf(nodes, id) - 1]

\* device.alloc_zeros::<BinaryNodeData>(n)
AllocZeros(n) ==
    [i \in 1..n |-> [position |-> <<0, 0, 0>>, velocity |-> <<0, 0, 0>>, mass |-> 0]]

\* SimulationParams::default()
DefaultSimulationParams == [kind |-> "default"]

\* the faults of the device during one calculate_layout: the allocation of
\* update_graph_data, its copy to the device, the kernel launch, the copy back
DeviceFaults == {"none", "alloc", "copy", "launch", "readback"}

\* update_graph_data keeps the iteration counter when it does not reallocate
C33_NoReset(gpu, n) == [gpu EXCEPT !.node_data = AllocZeros(n), !.num_nodes = n]

\* the reallocation of update_graph_data for n nodes
Reallocate(gpu, n) ==
    [gpu EXCEPT !.node_data = AllocZeros(n), !.num_nodes = n, !.iteration_count = 0]

\* update_graph_data(graph)
UpdateGraphData(gpu, g, fault) ==
    LET n == Len(g.nodes)
        indexed == [gpu EXCEPT !.node_indices = NodeIndices(g.nodes)]
        sized == IF n # gpu.num_nodes THEN Reallocate(indexed, n) ELSE indexed
    IN  IF n # gpu.num_nodes /\ fault = "alloc"
        THEN [result |-> "alloc", gpu |-> indexed]
        ELSE IF fault = "copy"
        THEN [result |-> "copy", gpu |-> sized]
        ELSE [result |-> "ok",
              gpu |-> [sized EXCEPT !.node_data = [i \in 1..n |-> DataOf(g.nodes[i])]]]

\* update_simulation_params(params)
UpdateSimulationParams(gpu, prm) == [gpu EXCEPT !.simulation_params = prm]

\* what the kernel leaves in one record: the position moved by the velocity
\* over one time step
KernelRecord(data) ==
    [data EXCEPT !.position = [k \in Axes |-> FAdd(data.position[k],
                                                   FxMul(data.velocity[k], TimeStep))]]

\* the node data the launched kernel leaves on the device
KernelOutput(node_data) == [i \in 1..Len(node_data) |-> KernelRecord(node_data[i])]

\* compute_forces(), and step() which adds only logging to it
ComputeForces(gpu, fault) ==
    IF fault = "launch"
    THEN [result |-> "launch", gpu |-> gpu]
    ELSE [result |-> "ok",
          gpu |-> [gpu EXCEPT !.node_data = KernelOutput(gpu.node_data),
                              !.iteration_count = gpu.iteration_count + 1]]

\* get_node_data(): num_nodes records copied from the device
GetNodeData(gpu, fault) ==
    IF fault = "readback"
    THEN [result |-> "readback", nodes |-> <<>>]
    ELSE [result |-> "ok", nodes |-> [i \in 1..gpu.num_nodes |-> gpu.node_data[i]]]

\* a write-back that stops after the first record
C34_WriteFirstOnly(g, nm, updated_nodes) ==
    [graph    |-> [nodes |-> [i \in 1..Len(g.nodes) |->
                                 IF i > 1 THEN g.nodes[i]
                                 ELSE WithData(g.nodes[i], updated_nodes[i])],
                   edges |-> g.edges],
     node_map |-> nm]

\* the write-back of calculate_layout: record i into graph.nodes[i] and into
\* the map entry of its id
WriteBack(g, nm, updated_nodes) ==
    LET nodes == [i \in 1..Len(g.nodes) |->
                     IF i > Len(updated_nodes) THEN g.nodes[i]
                     ELSE WithData(g.nodes[i], updated_nodes[i])]
        written == {i \in 1..Len(g.nodes) : i <= Len(updated_nodes)}
        last(id) == CHOOSE i \in written :
                        /\ g.nodes[i].id = id
                        /\ \A j \in written : g.nodes[j].id = id => j <= i
    IN  [graph    |-> [nodes |-> nodes, edges |-> g.edges],
         node_map |-> [id \in DOMAIN nm |->
                          IF \E i \in written : g.nodes[i].id = id
                          THEN updated_nodes[last(id)]
                          ELSE nm[id]]]

\* a calculate_layout that has written the graph before it finds the fault
C37_WriteThenFail(gpu, g, nm, prm, fault) ==
    LET stepped == ComputeForces(UpdateSimulationParams(gpu, prm), "none")
        written == WriteBack(g, nm, GetNodeData(stepped.gpu, "none").nodes)
    IN  [result |-> IF fault \in {"launch", "readback"} THEN fault ELSE "ok",
         gpu |-> stepped.gpu, graph |-> written.graph, node_map |-> written.node_map]

\* the rest of calculate_layout after update_graph_data has returned Ok
AfterUpload(gpu, g, nm, prm, fault) ==
    LET stepped == ComputeForces(UpdateSimulationParams(gpu, prm), fault)
        read == GetNodeData(stepped.gpu, fault)
    IN  IF stepped.result # "ok"
        THEN [result |-> stepped.result, gpu |-> stepped.gpu, graph |-> g, node_map |-> nm]
        ELSE IF read.result # "ok"
        THEN [result |-> read.result, gpu |-> stepped.gpu, graph |-> g, node_map |-> nm]
        ELSE LET written == WriteBack(g, nm, read.nodes)
             IN  [result |-> "ok", gpu |-> stepped.gpu,
                  graph |-> written.graph, node_map |-> written.node_map]

\* calculate_layout(gpu_compute, graph, node_map, params)
CalculateLayout(gpu, g, nm, prm, fault) ==
    LET uploaded == UpdateGraphData(gpu, g, fault)
    IN  IF uploaded.result # "ok"
        THEN [result |-> uploaded.result, gpu |-> uploaded.gpu, graph |-> g, node_map |-> nm]
        ELSE AfterUpload(uploaded.gpu, g, nm, prm, fault)

\* load_compute_kernel: the instance GPUCompute::new returns for a graph
NewGpuCompute(g) ==
    UpdateGraphData([present |-> TRUE,
                     node_data |-> AllocZeros(Len(g.nodes)),
                     num_nodes |-> Len(g.nodes),
                     node_indices |-> NodeIndices(g.nodes),
                     simulation_params |-> DefaultSimulationParams,
                     iteration_count |-> 0], g, "none").gpu

\* the graphs GPUCompute::new is called with: one of each size
CreationGraphs == {g \in DeviceGraphs : \A i \in 1..Len(g.nodes) : g.nodes[i].id = U64ToString(1)}

\* GraphService::new: an empty graph and an empty node map, the physics
\* settings and the GPU executor the tick loop captures
DeviceInit ==
    /\ graph_data = [nodes |-> <<>>, edges |-> <<>>]
    /\ node_map = <<>>
    /\ params \in {prm \in StartParams : prm.enable_bounds /\ prm.viewport_bounds >= 0}
    /\ ticks = 0
    /\ loopEnv \in [enabled : BOOLEAN, gpu : BOOLEAN]
    /\ gpuCompute \in IF loopEnv.gpu THEN {NewGpuCompute(g) : g \in CreationGraphs} ELSE {NoGpu}
    /\ lastCall = NoTick
    /\ loopPc = "lock_graph_data"
    /\ lockHeld = [l \in LoopLocks |-> "none"]
    /\ lastTick = "none"
    /\ sleptMs = 0
    /\ LiveIdle /\ PageIdle /\ LocksIdle
    /\ GpuIdle /\ BuilderIdle /\ RebuildIdle /\ CacheIdle

deviceRest == <<builderVars, rebuildVars, cacheVars, gpuVars, liveVars, loopVars, pageVars,
               lockVars>>

\* a holder of the guard get_graph_data_mut returns stores a graph
SetGraph(g) ==
    /\ graph_data # g
    /\ graph_data' = g
    /\ lastCall' = NoTick
    /\ UNCHANGED <<node_map, params, ticks, gpuCompute, deviceRest>>

\* a holder of the guard get_node_map_mut returns stores a map
SetNodeMap(nm) ==
    /\ node_map # nm
    /\ node_map' = nm
    /\ lastCall' = NoTick
    /\ UNCHANGED <<graph_data, params, ticks, gpuCompute, deviceRest>>

\* a loop that falls back on the CPU executor when physics is disabled
C31_AlwaysStep(env) == IF env.gpu THEN "gpu" ELSE "cpu"

\* the executor of one tick: the GPU executor when physics is enabled and the
\* loop has one, the CPU executor when it is enabled and has none, else none
ExecutorOf(env) ==
    IF ~env.enabled THEN "none" ELSE IF env.gpu THEN "gpu" ELSE "cpu"

\* one iteration of the tick loop between taking and dropping the write
\* guards of graph_data and node_map
Tick ==
    /\ ticks < MaxTicks
    /\ ticks' = ticks + 1
    /\ \E fault \in DeviceFaults :
          LET executor == ExecutorOf(loopEnv)
          IN  IF executor = "gpu"
              THEN \E done \in {CalculateLayout(gpuCompute, graph_data, node_map, params, fault)} :
                      /\ graph_data' = done.graph
                      /\ node_map' = done.node_map
                      /\ gpuCompute' = done.gpu
                      /\ lastCall' = [executor |-> "gpu", result |-> done.result,
                                       count_before |-> gpuCompute.iteration_count]
              ELSE IF executor = "cpu"
              THEN \E done \in {CalculateLayoutCpu(graph_data, node_map, params)} :
                      /\ fault = "none"
                      /\ graph_data' = done.graph
                      /\ node_map' = done.node_map
                      /\ lastCall' = [executor |-> "cpu", result |-> "ok"]
                      /\ UNCHANGED gpuCompute
              ELSE /\ fault = "none"
                   /\ lastCall' = [executor |-> "none", result |-> "skipped"]
                   /\ UNCHANGED <<graph_data, node_map, gpuCompute>>
    /\ UNCHANGED <<params, deviceRest>>

DeviceNext ==
    \/ \E g \in DeviceGraphs : SetGraph(g)
    \/ \E nm \in DeviceMaps : SetNodeMap(nm)
    \/ Tick

SpecDevice == DeviceInit /\ [][DeviceNext]_vars

StepMade(result) == result \in {"ok", "readback"}

\* C33 as stated: in a GPU tick the counter is reset to 0, and the buffer
\* reallocated for the new count, exactly when the node count of the graph
\* differs from num_nodes; a successful step then adds 1 and a failed launch
\* nothing.
C33_ResetWhenCountDiffers ==
    [][(ticks' = ticks + 1 /\ lastCall'.executor = "gpu") =>
        LET n == Len(graph_data.nodes)
            differs == n # gpuCompute.num_nodes
            updated == IF differs THEN 0 ELSE gpuCompute.iteration_count
        IN  /\ gpuCompute'.iteration_count =
                  updated + (IF StepMade(lastCall'.result) THEN 1 ELSE 0)
            /\ differs => gpuCompute'.num_nodes = n]_vars

\* C33 amended: in a GPU tick the counter is reset to 0, and num_nodes set to
\* the new count, exactly when the node count of the graph differs from
\* num_nodes and the allocation of the new buffer succeeds; otherwise both are
\* unchanged by update_graph_data.  A successful step then adds 1; a failed
\* upload or launch adds nothing.
C33_ResetWhenReallocated ==
    [][(ticks' = ticks + 1 /\ lastCall'.executor = "gpu") =>
        LET n == Len(graph_data.nodes)
            reset == n # gpuCompute.num_nodes /\ lastCall'.result # "alloc"
            updated == IF reset THEN 0 ELSE gpuCompute.iteration_count
        IN  /\ gpuCompute'.iteration_count =
                  updated + (IF StepMade(lastCall'.result) THEN 1 ELSE 0)
            /\ gpuCompute'.num_nodes = IF reset THEN n ELSE gpuCompute.num_nodes
            /\ Len(gpuCompute'.node_data) = gpuCompute'.num_nodes]_vars

\* a GPU tick that started from a count of 2 found a graph of another size,
\* reset the counter and made one step
C33_Witness ==
    /\ lastCall.executor = "gpu" /\ lastCall.result = "ok"
    /\ lastCall.count_before = 2
    /\ gpuCompute.iteration_count = 1

\* update_graph_data of the latest GPU tick returned Ok
Uploaded(result) == result \in {"ok", "launch", "readback"}

\* C34: after a GPU tick whose update_graph_data succeeded, num_nodes is the
\* number of nodes of the graph, node_indices has exactly the ids of the graph
\* as keys and maps each to the index of a node with that id (its index when
\* no other node has the id), and get_node_data returns one record per node;
\* when the tick succeeded, node i has the data of record i, every node was
\* written, and the ids are in the order they were in.
C34_UploadAndWriteBack ==
    [][(ticks' = ticks + 1 /\ lastCall'.executor = "gpu" /\ Uploaded(lastCall'.result)) =>
        LET nodes == graph_data.nodes
            after == graph_data'.nodes
            gpu == gpuCompute'
            records == GetNodeData(gpu, "none").nodes
        IN  /\ gpu.num_nodes = Len(nodes)
            /\ DOMAIN gpu.node_indices = {nodes[i].id : i \in 1..Len(nodes)}
            /\ \A id \in DOMAIN gpu.node_indices : nodes[gpu.node_indices[id] + 1].id = id
            /\ \A i \in 1..Len(nodes) :
                  (\A j \in 1..Len(nodes) : nodes[j].id = nodes[i].id => j = i) =>
                      gpu.node_indices[nodes[i].id] = i - 1
            /\ Len(records) = Len(nodes)
            /\ Len(after) = Len(nodes)
            /\ \A i \in 1..Len(nodes) : after[i].id = nodes[i].id
            /\ lastCall'.result = "ok" =>
                  \A i \in 1..Len(nodes) : DataOf(after[i]) = records[i]
            /\ lastCall'.result # "ok" => after = nodes]_vars

\* the latest GPU tick succeeded on a graph of two nodes with the ids "1" and
\* "2", and both nodes have the data read from the device
C34_Witness ==
    /\ lastCall.executor = "gpu" /\ lastCall.result = "ok"
    /\ Len(graph_data.nodes) = 2
    /\ graph_data.nodes[1].id # graph_data.nodes[2].id
    /\ gpuCompute.num_nodes = 2
    /\ gpuCompute.node_indices[graph_data.nodes[2].id] = 1
    /\ \A i \in 1..2 : DataOf(graph_data.nodes[i]) = gpuCompute.node_data[i]
    /\ graph_data.nodes[1].position # StartData(1).position

\* C37: a GPU tick that fails, at the upload (allocation or copy), at the step
\* or at the readback, returns the error and leaves graph.nodes, the edges and
\* the node map exactly as they were.
C37_FailedTickWritesNothing ==
    [][(ticks' = ticks + 1 /\ lastCall'.executor = "gpu" /\ lastCall'.result # "ok") =>
        /\ lastCall'.result \in DeviceFaults \ {"none"}
        /\ graph_data' = graph_data
        /\ node_map' = node_map]_vars

\* the latest GPU tick failed at the readback after the step had moved the
\* records on the device, and the two nodes of the graph hold the data they
\* were stored with
C37_Witness ==
    /\ lastCall.executor = "gpu" /\ lastCall.result = "readback"
    /\ Len(graph_data.nodes) = 2
    /\ \A i \in 1..2 : DataOf(graph_data.nodes[i]) = StartData(i)
    /\ \A i \in 1..2 : gpuCompute.node_data[i] = KernelRecord(StartData(i))
    /\ DOMAIN node_map # {}

(***************************************************************************)
(* update_node_positions                                                   *)
(***************************************************************************)

\* longest list of updates of one call
MaxUpdates == 2

\* the node data the u-th update of a call carries
UpdateDataAt(u) ==
    [position |-> <<1000 * u, 1000, 1000>>, velocity |-> <<0, 0, 250 * u>>, mass |-> 7]

\* the node data the updates carry
UpdateData == {UpdateDataAt(u) : u \in 1..(MaxUpdates + 1)}

\* the u16 ids the updates carry; no graph or map of the model has a node "3"
UpdateIds == {1, 2, 3}

\* updates: Vec<(u16, Node)>
UpdateLists ==
    UNION {{[u \in 1..n |-> <<ids[u], UpdateDataAt(u)>>] : ids \in [1..n -> UpdateIds]} :
              n \in 0..MaxUpdates}

\* for (node_id_u16, node_data) in updates { if let Some(node) =
\* node_map.get_mut(&node_id_u16.to_string()) { node.data = node_data.data } }
RECURSIVE ApplyUpdates(_, _)
ApplyUpdates(nm, updates) ==
    IF updates = <<>> THEN nm
    ELSE LET node_id == U64ToString(Head(updates)[1])
         IN  ApplyUpdates(IF node_id \in DOMAIN nm
                          THEN [nm EXCEPT ![node_id] = Head(updates)[2]]
                          ELSE nm,
                          Tail(updates))

\* a second loop that leaves graph.nodes alone
C35_NoReconcile(nodes, nm) == nodes

\* for node in &mut graph.nodes { if let Some(updated_node) =
\* node_map.get(&node.id) { node.data = updated_node.data } }
Reconcile(nodes, nm) ==
    [i \in 1..Len(nodes) |->
        IF nodes[i].id \in DOMAIN nm THEN WithData(nodes[i], nm[nodes[i].id]) ELSE nodes[i]]

\* GraphService::new, before any update
PositionsInit ==
    /\ PhysIdle
    /\ CacheIdle /\ AuxIdle /\ RebuildIdle /\ GpuIdle /\ BuilderIdle

\* update_node_positions(updates) under the write guards of graph_data and
\* node_map
UpdateNodePositions(updates) ==
    /\ \E applied \in {ApplyUpdates(node_map, updates)} :
          /\ node_map' = applied
          /\ graph_data' = [graph_data EXCEPT !.nodes = Reconcile(graph_data.nodes, applied)]
    /\ UNCHANGED <<params, ticks, deviceVars, deviceRest>>

PositionsNext ==
    \/ \E g \in DeviceGraphs : SetGraph(g)
    \/ \E nm \in DeviceMaps : SetNodeMap(nm)
    \/ \E updates \in UpdateLists : UpdateNodePositions(updates)

SpecPositions == PositionsInit /\ [][PositionsNext]_vars

\* the places of `updates` whose id, as a string, is key
UpdatesOf(updates, key) == {u \in 1..Len(updates) : U64ToString(updates[u][1]) = key}

\* the greatest element of a non-empty set of numbers
Greatest(set) == CHOOSE m \in set : \A o \in set : o <= m

\* C35: a call of update_node_positions leaves in each entry of the node map
\* the data of the last update whose id is the entry's key, leaves the entries
\* no update names as they were and adds none; afterwards every node of the
\* graph whose id is a key of the map has the data of that entry, and the
\* other nodes, the ids and the order of the nodes are unchanged.
C35_UpdateAndReconcile ==
    [][\A updates \in UpdateLists :
          UpdateNodePositions(updates) =>
              /\ DOMAIN node_map' = DOMAIN node_map
              /\ \A key \in DOMAIN node_map :
                    node_map'[key] =
                        IF UpdatesOf(updates, key) = {} THEN node_map[key]
                        ELSE updates[Greatest(UpdatesOf(updates, key))][2]
              /\ Len(graph_data'.nodes) = Len(graph_data.nodes)
              /\ \A i \in 1..Len(graph_data.nodes) :
                    LET node == graph_data.nodes[i]
                        after == graph_data'.nodes[i]
                    IN  /\ after.id = node.id
                        /\ IF node.id \in DOMAIN node_map
                           THEN DataOf(after) = node_map'[node.id]
                           ELSE after = node]_vars

\* the map has taken the data of an update while a node of the graph whose id
\* is not a key of the map keeps the data it was stored with
C35_Witness ==
    /\ \E key \in DOMAIN node_map : node_map[key] \in UpdateData
    /\ \E i, j \in 1..Len(graph_data.nodes) :
          /\ DataOf(graph_data.nodes[i]) \in UpdateData
          /\ graph_data.nodes[j].id \notin DOMAIN node_map
          /\ DataOf(graph_data.nodes[j]) = StartData(j)

(***************************************************************************)
(* The lock protocol.  Every task that takes the RwLocks of the service    *)
(* and of the GPU is a program: a set of steps, each leading from one      *)
(* place of the task to the next by taking a write or a read lock, by      *)
(* dropping guards, or by running without a lock operation.                *)
(***************************************************************************)
\* a step of a program
ProgramStep(at, op, locks, next, when) ==
    [at |-> at, op |-> op, locks |-> locks, next |-> next, when |-> when, steps |-> 0]

\* the tick loop of GraphService::new
TickProgram ==
    {ProgramStep("lock_graph_data", "write", {"graph_data"}, "lock_node_map", "always"),
     ProgramStep("lock_node_map", "write", {"node_map"}, "layout", "always"),
     ProgramStep("layout", "run", {}, "lock_gpu_compute", "gpu"),
     ProgramStep("layout", "run", {}, "release", "no_gpu"),
     ProgramStep("lock_gpu_compute", "write", {"gpu_compute"}, "gpu_step", "always"),
     ProgramStep("gpu_step", "unlock", {"gpu_compute"}, "release", "always"),
     ProgramStep("release", "unlock", {"graph_data", "node_map"}, "sleep", "always"),
     ProgramStep("sleep", "run", {}, "lock_cache", "always"),
     ProgramStep("lock_cache", "write", {"node_positions_cache"}, "clear_cache", "always"),
     ProgramStep("clear_cache", "unlock", {"node_positions_cache"}, "lock_graph_data", "always")}

\* update_node_positions takes node_map first
C39_MapFirst(k) == IF k = 1 THEN "node_map" ELSE "graph_data"

\* the k-th lock update_node_positions takes
UpdaterLock(k) == IF k = 1 THEN "graph_data" ELSE "node_map"

\* update_node_positions
UpdaterProgram ==
    {ProgramStep("idle", "call", {}, "lock_first", "always"),
     ProgramStep("lock_first", "write", {UpdaterLock(1)}, "lock_second", "always"),
     ProgramStep("lock_second", "write", {UpdaterLock(2)}, "apply", "always"),
     ProgramStep("apply", "unlock", {"graph_data", "node_map"}, "idle", "always")}

\* get_node_positions: the cached entry is served, or the graph is read and
\* the cache written
ReaderProgram ==
    {ProgramStep("idle", "call", {}, "read_cache", "always"),
     ProgramStep("read_cache", "read", {"node_positions_cache"}, "check_cache", "always"),
     ProgramStep("check_cache", "unlock", {"node_positions_cache"}, "idle", "always"),
     ProgramStep("check_cache", "unlock", {"node_positions_cache"}, "read_graph", "always"),
     ProgramStep("read_graph", "read", {"graph_data"}, "clone", "always"),
     ProgramStep("clone", "unlock", {"graph_data"}, "write_cache", "always"),
     ProgramStep("write_cache", "write", {"node_positions_cache"}, "store", "always"),
     ProgramStep("store", "unlock", {"node_positions_cache"}, "idle", "always")}

\* build_graph: get_graph_data_mut().await, held to the return
BuilderProgram ==
    {ProgramStep("idle", "call", {}, "lock_graph_data", "always"),
     ProgramStep("lock_graph_data", "write", {"graph_data"}, "build", "always"),
     ProgramStep("build", "unlock", {"graph_data"}, "idle", "always")}

\* the futures of a session: handle_layout with params.iterations steps (the
\* fisheye and GpuUpdate futures are layouts of 0 and 1 steps)
SessionProgram ==
    {[ProgramStep("idle", "call", {}, "lock_gpu_compute", "has_gpu") EXCEPT !.steps = n] :
        n \in 0..MaxIterations}
    \cup
    {ProgramStep("lock_gpu_compute", "write", {"gpu_compute"}, "stepping", "always"),
     ProgramStep("stepping", "step", {}, "stepping", "left"),
     ProgramStep("stepping", "unlock", {"gpu_compute"}, "idle", "none_left")}

Program(t) ==
    CASE t = "tick" -> TickProgram
      [] t = "updater" -> UpdaterProgram
      [] t = "reader" -> ReaderProgram
      [] t = "builder" -> BuilderProgram
      [] t = "session" -> SessionProgram

\* the condition of a step
When(condition) ==
    CASE condition = "always" -> TRUE
      [] condition = "gpu" -> loopEnv.enabled /\ loopEnv.gpu
      [] condition = "no_gpu" -> ~(loopEnv.enabled /\ loopEnv.gpu)
      [] condition = "has_gpu" -> loopEnv.gpu
      [] condition = "left" -> stepsLeft > 0
      [] condition = "none_left" -> stepsLeft = 0

\* RwLock::write().await returns: no writer and no reader
WriteFree(l) == rwLock[l] = NoHolder

\* RwLock::read().await returns: no writer
ReadFree(l) == rwLock[l].writer = "none"

\* the lock after task t has dropped its guard
Dropped(holder, t) ==
    [writer |-> IF holder.writer = t THEN "none" ELSE holder.writer,
     readers |-> holder.readers \ {t}]

LocksInit ==
    /\ taskPc = [t \in LockTasks |-> IF t = "tick" THEN "lock_graph_data" ELSE "idle"]
    /\ rwLock = [l \in LoopLocks |-> NoHolder]
    /\ stepsLeft = 0
    /\ loopEnv \in [enabled : BOOLEAN, gpu : BOOLEAN]
    /\ loopPc = "lock_graph_data"
    /\ lockHeld = [l \in LoopLocks |-> "none"]
    /\ lastTick = "none"
    /\ sleptMs = 0
    /\ LiveIdle /\ PageIdle /\ DeviceIdle
    /\ GpuIdle /\ BuilderIdle /\ RebuildIdle /\ PhysIdle /\ CacheIdle

\* task t makes the step of its program
RunStep(t, step) ==
    /\ taskPc[t] = step.at
    /\ When(step.when)
    /\ taskPc' = [taskPc EXCEPT ![t] = step.next]
    /\ CASE step.op = "write" ->
              /\ \A l \in step.locks : WriteFree(l)
              /\ rwLock' = [l \in LoopLocks |->
                               IF l \in step.locks THEN [rwLock[l] EXCEPT !.writer = t]
                               ELSE rwLock[l]]
              /\ UNCHANGED stepsLeft
         [] step.op = "read" ->
              /\ \A l \in step.locks : ReadFree(l)
              /\ rwLock' = [l \in LoopLocks |->
                               IF l \in step.locks
                               THEN [rwLock[l] EXCEPT !.readers = @ \cup {t}]
                               ELSE rwLock[l]]
              /\ UNCHANGED stepsLeft
         [] step.op = "unlock" ->
              /\ rwLock' = [l \in LoopLocks |->
                               IF l \in step.locks THEN Dropped(rwLock[l], t) ELSE rwLock[l]]
              /\ UNCHANGED stepsLeft
         [] step.op = "step" ->
              /\ stepsLeft' = stepsLeft - 1
              /\ UNCHANGED rwLock
         [] step.op = "call" ->
              /\ stepsLeft' = IF t = "session" THEN step.steps ELSE stepsLeft
              /\ UNCHANGED rwLock
         [] step.op = "run" ->
              UNCHANGED <<rwLock, stepsLeft>>
    /\ UNCHANGED <<builderVars, rebuildVars, physVars, cacheVars, gpuVars, liveVars, loopVars,
                   pageVars, deviceVars>>

LocksNext == \E t \in LockTasks : \E step \in Program(t) : RunStep(t, step)

\* the steps that take a lock
AcquireSteps(t) == {step \in Program(t) : step.op \in {"write", "read"}}

\* the steps a task makes by itself once it is polled
OwnSteps(t) == {step \in Program(t) : step.op \in {"unlock", "step", "run"}}

\* a tokio RwLock hands the lock to a waiter that has queued for it, and the
\* runtime keeps polling every task; nothing makes a caller call
LocksFairness ==
    /\ \A t \in LockTasks : SF_vars(\E step \in AcquireSteps(t) : RunStep(t, step))
    /\ \A t \in LockTasks : WF_vars(\E step \in OwnSteps(t) : RunStep(t, step))

SpecLocks == LocksInit /\ [][LocksNext]_vars /\ LocksFairness

\* the tasks that hold lock l
HoldersOf(l) == (rwLock[l].readers \cup {rwLock[l].writer}) \ {"none"}

\* the holders that keep task t from the lock it is about to take
BlockedBy(t) ==
    UNION {UNION {IF step.op = "write" THEN HoldersOf(l) ELSE {rwLock[l].writer} \ {"none"} :
                     l \in step.locks} :
              step \in {a \in AcquireSteps(t) : a.at = taskPc[t]}}

RECURSIVE Upstream(_, _)
\* the tasks that `tasks` wait for, directly or through n others
Upstream(tasks, n) ==
    IF n = 0 THEN tasks
    ELSE Upstream(tasks \cup UNION {BlockedBy(u) : u \in tasks}, n - 1)

\* no task waits, directly or through others, for a lock it keeps another from
NoWaitCycle == \A t \in LockTasks : t \notin Upstream(BlockedBy(t), Cardinality(LockTasks))

====
